---- MODULE Spec2Model ----
(***************************************************************************)
(* TheKit (thekit4_pico_w / pico_ethntp): the NMEA-0183 parser             *)
(* (gps_util.c), the GPS glue (gps.c, irq.c), the SNTP client (ntp.c) and  *)
(* the time keeping of ntp_common.c, as state machines.                    *)
(*                                                                         *)
(* Representation.                                                         *)
(*  - A byte is its ASCII code, 0..255.                                    *)
(*  - A C float is a record [neg, i, f]: sign, integral part and           *)
(*    fractional part in units of 10^-7 (FSCALE), the resolution of the    *)
(*    NEGPOW_10 table.                                                     *)
(*  - Monotonic time (absolute_time_t, timestamp_t) is in microseconds.    *)
(***************************************************************************)
EXTENDS Integers, Sequences, FiniteSets, TLC

----------------------------------------------------------------------------
(* Bytes *)

\* bit k of a byte
Bit(a, k) == (a \div (2 ^ k)) % 2

\* a ^ b on uint8_t
Xor8(a, b) ==
      ((Bit(a, 0) + Bit(b, 0)) % 2)
    + ((Bit(a, 1) + Bit(b, 1)) % 2) * 2
    + ((Bit(a, 2) + Bit(b, 2)) % 2) * 4
    + ((Bit(a, 3) + Bit(b, 3)) % 2) * 8
    + ((Bit(a, 4) + Bit(b, 4)) % 2) * 16
    + ((Bit(a, 5) + Bit(b, 5)) % 2) * 32
    + ((Bit(a, 6) + Bit(b, 6)) % 2) * 64
    + ((Bit(a, 7) + Bit(b, 7)) % 2) * 128

isdigit(c) == c >= 48 /\ c <= 57

\* character literals of gps_util.c, and EOF of <stdio.h>
CH ==
    [nul |-> 0, lf |-> 10, cr |-> 13, dollar |-> 36, star |-> 42, comma |-> 44,
     minus |-> 45, dot |-> 46, zero |-> 48, A |-> 65, C |-> 67, D |-> 68,
     E |-> 69, G |-> 71, L |-> 76, M |-> 77, N |-> 78, R |-> 82, S |-> 83,
     V |-> 86, W |-> 87, Z |-> 90, eof |-> 0 - 1]

\* static const char HEX[] = "0123456789ABCDEF";
HEX(n) == IF n < 10 THEN 48 + n ELSE 55 + n

----------------------------------------------------------------------------
(* Floats *)

FSCALE == 10000000

FZero == [neg |-> FALSE, i |-> 0, f |-> 0]

\* -x
FNeg(x) == [x EXCEPT !.neg = ~x.neg]

\* an unsigned integer plus a fraction 0 <= f (f may exceed FSCALE: carry)
FMake(i, f) == [neg |-> FALSE, i |-> i + (f \div FSCALE), f |-> (f % FSCALE)]

\* (float)deg + min_parser / 60.0 for the deg and min_parser of parse_dm
FDegMin(dm) ==
    FMake(dm.deg, ((dm.min_parser.i * FSCALE) + dm.min_parser.f) \div 60)

\* static const float NEGPOW_10[] = {1, 1e-1, ..., 1e-7}, in units of 10^-7
NEGPOW_10_LEN == 8

RECURSIVE Pow10(_)
Pow10(n) == IF n = 0 THEN 1 ELSE 10 * Pow10(n - 1)

\* value * NEGPOW_10[digits] in units of 10^-7; NEGPOW_10[8] is a read past the
\* end of the table, whose product is whatever the caller supplies as oob
ScaleByNegPow10(value, digits, oob) ==
    IF digits < NEGPOW_10_LEN THEN value * Pow10(NEGPOW_10_LEN - 1 - digits)
    ELSE oob

----------------------------------------------------------------------------
(* gps_util.c: field parsers.  A parse in progress is a record p: the       *)
(* running checksum p.cs, the cursor p.cur, the value the last field parser *)
(* returned (p.val, with p.frac the decimal part), the out-parameters       *)
(* written so far, and p.ok, which is TRUE until the sentence parser        *)
(* returns false: after that nothing more is parsed.  p.idx is the largest  *)
(* index with which NEGPOW_10 has been read.                                *)

\* char buffer[128]
BUFSIZE == 128

\* uint8_t cursor
U8(n) == n % 256

\* the locals and out-parameters of a sentence parser at its entry
Parser(checksum, cursor) ==
    [ok |-> TRUE, cs |-> checksum, cur |-> cursor, val |-> 0, frac |-> 0,
     hour |-> 0, min |-> 0, sec |-> FZero, deg |-> 0, min_parser |-> FZero,
     lat |-> FZero, lon |-> FZero, valid |-> FALSE,
     fix_quality |-> 0, num_satellites |-> 0, hdop |-> FZero,
     altitude |-> FZero, geoid_sep |-> FZero,
     year |-> 0, month |-> 0, day |-> 0, zone_hour |-> 0, zone_min |-> 0,
     idx |-> 0]

\* while (isdigit(c = *buffer) && buffer < end)
RECURSIVE parse_integer_loop(_, _, _)
parse_integer_loop(p, buffer, buffer_len) ==
    IF isdigit(buffer[p.cur]) /\ p.cur < buffer_len
    THEN parse_integer_loop([p EXCEPT !.val = @ * 10 + buffer[p.cur] - CH.zero,
                                      !.cs = Xor8(@, buffer[p.cur]),
                                      !.cur = @ + 1], buffer, buffer_len)
    ELSE p

\* Parse an unsigned integer and stop at the first non-digit character
parse_integer(p, buffer, buffer_len) ==
    IF ~p.ok THEN p
    ELSE parse_integer_loop([p EXCEPT !.val = 0], buffer, buffer_len)

\* the same loop, stopping after NEGPOW_10_LEN digits, on [val, digits, cs, pos]
RECURSIVE parse_float_decimal_loop(_, _, _)
parse_float_decimal_loop(r, buffer, buffer_len) ==
    IF isdigit(buffer[r.pos]) /\ r.pos < buffer_len /\ r.digits < NEGPOW_10_LEN
    THEN parse_float_decimal_loop([val |-> r.val * 10 + buffer[r.pos] - CH.zero,
                                   digits |-> r.digits + 1,
                                   cs |-> Xor8(r.cs, buffer[r.pos]),
                                   pos |-> r.pos + 1], buffer, buffer_len)
    ELSE r

\* Parse a floating point number from the decimal point; p.frac is the
\* fraction in units of 10^-7
parse_float_decimal(p, buffer, buffer_len, oob) ==
    IF p.cur >= buffer_len \/ buffer[p.cur] # CH.dot
    THEN [p EXCEPT !.frac = 0]
    ELSE LET scaled(r) == [p EXCEPT !.frac = ScaleByNegPow10(r.val, r.digits, oob),
                                    !.cs = r.cs,
                                    !.cur = U8(@ + r.digits + 1),
                                    !.idx = IF r.digits > @ THEN r.digits
                                            ELSE @]
         IN  scaled(parse_float_decimal_loop(
                        [val |-> 0, digits |-> 0, cs |-> Xor8(p.cs, CH.dot),
                         pos |-> p.cur + 1], buffer, buffer_len))

\* Parse a floating point number and stop at the first non-number character
parse_float(p, buffer, buffer_len, oob) ==
    IF ~p.ok THEN p
    ELSE IF buffer_len - p.cur >= 1
    THEN LET negative == buffer[p.cur] = CH.minus
             result(q) == [q EXCEPT !.val = IF negative
                                            THEN FNeg(FMake(q.val, q.frac))
                                            ELSE FMake(q.val, q.frac)]
         IN  result(parse_float_decimal(
                        parse_integer(IF negative
                                      THEN [p EXCEPT !.cs = Xor8(@, CH.minus),
                                                     !.cur = U8(@ + 1)]
                                      ELSE p, buffer, buffer_len),
                        buffer, buffer_len, oob))
    ELSE [p EXCEPT !.val = FZero]

\* Take a single character; EOF, with nothing consumed, before ',' or '*' or
\* at the end of the buffer
parse_single_char(p, buffer, buffer_len) ==
    IF ~p.ok THEN p
    ELSE IF p.cur >= buffer_len THEN [p EXCEPT !.val = CH.eof]
    ELSE LET c == buffer[p.cur]
         IN  IF c = CH.comma \/ c = CH.star THEN [p EXCEPT !.val = CH.eof]
             ELSE [p EXCEPT !.val = c, !.cs = Xor8(@, c), !.cur = U8(@ + 1)]

\* Parse a h?hmmss.?s* string
parse_hms(p, buffer, buffer_len, oob) ==
    IF ~p.ok THEN p
    ELSE LET out(q) == [q EXCEPT !.hour = U8((q.val \div 100) \div 100),
                                 !.min = U8((q.val \div 100) % 100),
                                 !.sec = FMake(U8(q.val % 100), q.frac)]
         IN  out(parse_float_decimal(parse_integer(p, buffer, buffer_len),
                                     buffer, buffer_len, oob))

\* Parse a d?d?dmm.?m* string
parse_dm(p, buffer, buffer_len, oob) ==
    IF ~p.ok THEN p
    ELSE LET out(q) == [q EXCEPT !.deg = (q.val \div 100) % 65536,
                                 !.min_parser = FMake(U8(q.val % 100), q.frac)]
         IN  out(parse_float_decimal(parse_integer(p, buffer, buffer_len),
                                     buffer, buffer_len, oob))

\* Parse the trailing '*hh' part of a NMEA sentence
check_checksum(p, buffer, buffer_len) ==
    IF p.cur + 3 > buffer_len THEN FALSE
    ELSE IF buffer[p.cur] # CH.star THEN FALSE
    ELSE /\ buffer[p.cur + 1] = HEX(p.cs \div 16)
         /\ buffer[p.cur + 2] = HEX(p.cs % 16)

\* while (*cursor < buffer_len)
RECURSIVE consume_loop(_, _, _)
consume_loop(p, buffer, buffer_len) ==
    IF p.cur < buffer_len
    THEN IF buffer[p.cur] = CH.star
         THEN p
         ELSE consume_loop([p EXCEPT !.cs = Xor8(@, buffer[p.cur]), !.cur = @ + 1],
                           buffer, buffer_len)
    ELSE p

consume_until_checksum(p, buffer, buffer_len) ==
    IF ~p.ok THEN p ELSE consume_loop(p, buffer, buffer_len)

\* COMMA_OR_FAIL(cursor): the cursor advances whether or not a comma is there
COMMA_OR_FAIL(p, buffer) ==
    IF ~p.ok THEN p
    ELSE IF buffer[p.cur] # CH.comma
    THEN [p EXCEPT !.ok = FALSE, !.cur = @ + 1]
    ELSE [p EXCEPT !.cs = Xor8(@, CH.comma), !.cur = @ + 1]

----------------------------------------------------------------------------
(* gps_util.c: sentence parsers.  The result is the parse at the return,    *)
(* with ok the return value.                                                *)

\* "Invalid value: return false" unless next is one of the characters allowed
one_of(p, allowed) ==
    IF p.ok /\ p.val \notin allowed THEN [p EXCEPT !.ok = FALSE] ELSE p

\* *dst = the integer returned, dst an out-parameter of 8 * bytes bits
assign_integer(p, dst, bytes) == [p EXCEPT ![dst] = p.val % (256 ^ bytes)]

\* *dst = the float returned
assign_float(p, dst) == [p EXCEPT ![dst] = p.val]

\* [AV]: *valid, false for an empty field
assign_valid(p) ==
    IF p.val = CH.A THEN [p EXCEPT !.valid = TRUE]
    ELSE one_of([p EXCEPT !.valid = FALSE], {CH.V, CH.eof})

\* return check_checksum(checksum, cursor, buffer, buffer_len)
return_check_checksum(p, buffer, buffer_len) ==
    [p EXCEPT !.ok = p.ok /\ check_checksum(p, buffer, buffer_len)]

\* dddmm.mmmmm,[NS],dddmm.mmmmm,[EW]: GGA, GLL and RMC parse the position
\* with the same statements
parse_lat_lon(p, buffer, buffer_len, oob) ==
    LET lat(q) == [q EXCEPT !.lat = FDegMin(q)]
        ns(q) == IF q.val = CH.S THEN [q EXCEPT !.lat = FNeg(@)]
                 ELSE one_of(q, {CH.N, CH.eof})
        lon(q) == [q EXCEPT !.lon = FDegMin(q)]
        ew(q) == IF q.val = CH.W THEN [q EXCEPT !.lon = FNeg(@)]
                 ELSE one_of(q, {CH.E, CH.eof})
        p1 == lat(parse_dm(p, buffer, buffer_len, oob))
        p2 == COMMA_OR_FAIL(p1, buffer)
        p3 == ns(parse_single_char(p2, buffer, buffer_len))
        p4 == COMMA_OR_FAIL(p3, buffer)
        p5 == lon(parse_dm(p4, buffer, buffer_len, oob))
        p6 == COMMA_OR_FAIL(p5, buffer)
    IN  ew(parse_single_char(p6, buffer, buffer_len))

\* hhmmss.sss,dddmm.mmmmm,[NS],dddmm.mmmmm,[EW],FIX,NSAT,HDOP,ALT,M,MSL,M,AGE,STID
gpsutil_parse_sentence_gga(p, buffer, buffer_len, oob) ==
    LET p1 == parse_hms(p, buffer, buffer_len, oob)
        p2 == COMMA_OR_FAIL(p1, buffer)
        p3 == parse_lat_lon(p2, buffer, buffer_len, oob)
        p4 == COMMA_OR_FAIL(p3, buffer)
        p5 == assign_integer(parse_integer(p4, buffer, buffer_len), "fix_quality", 1)
        p6 == COMMA_OR_FAIL(p5, buffer)
        p7 == assign_integer(parse_integer(p6, buffer, buffer_len),
                             "num_satellites", 1)
        p8 == COMMA_OR_FAIL(p7, buffer)
        p9 == assign_float(parse_float(p8, buffer, buffer_len, oob), "hdop")
        p10 == COMMA_OR_FAIL(p9, buffer)
        p11 == assign_float(parse_float(p10, buffer, buffer_len, oob), "altitude")
        p12 == COMMA_OR_FAIL(p11, buffer)
        p13 == one_of(parse_single_char(p12, buffer, buffer_len), {CH.M, CH.eof})
        p14 == COMMA_OR_FAIL(p13, buffer)
        p15 == assign_float(parse_float(p14, buffer, buffer_len, oob), "geoid_sep")
        p16 == consume_until_checksum(p15, buffer, buffer_len)
    IN  return_check_checksum(p16, buffer, buffer_len)

\* dddmm.mmmmm,[NS],dddmm.mmmmm,[EW],hhmmss.ss,[AV],...
gpsutil_parse_sentence_gll(p, buffer, buffer_len, oob) ==
    LET p1 == parse_lat_lon(p, buffer, buffer_len, oob)
        p2 == COMMA_OR_FAIL(p1, buffer)
        p3 == parse_hms(p2, buffer, buffer_len, oob)
        p4 == COMMA_OR_FAIL(p3, buffer)
        p5 == assign_valid(parse_single_char(p4, buffer, buffer_len))
        p6 == consume_until_checksum(p5, buffer, buffer_len)
    IN  return_check_checksum(p6, buffer, buffer_len)

\* hhmmss.ss,[AV],ddmm.mmmmm,[NS],dddmm.mmmmm,[EW],sss.s,ddd.d,ddMMyy,[E/W]
gpsutil_parse_sentence_rmc(p, buffer, buffer_len, oob) ==
    LET p1 == parse_hms(p, buffer, buffer_len, oob)
        p2 == COMMA_OR_FAIL(p1, buffer)
        p3 == assign_valid(parse_single_char(p2, buffer, buffer_len))
        p4 == COMMA_OR_FAIL(p3, buffer)
        p5 == parse_lat_lon(p4, buffer, buffer_len, oob)
        p6 == consume_until_checksum(p5, buffer, buffer_len)
    IN  return_check_checksum(p6, buffer, buffer_len)

\* hhmmss.sss,dd,mm,yyyy,zh,zm
gpsutil_parse_sentence_zda(p, buffer, buffer_len, oob) ==
    LET p1 == parse_hms(p, buffer, buffer_len, oob)
        p2 == COMMA_OR_FAIL(p1, buffer)
        p3 == assign_integer(parse_integer(p2, buffer, buffer_len), "day", 1)
        p4 == COMMA_OR_FAIL(p3, buffer)
        p5 == assign_integer(parse_integer(p4, buffer, buffer_len), "month", 1)
        p6 == COMMA_OR_FAIL(p5, buffer)
        p7 == assign_integer(parse_integer(p6, buffer, buffer_len), "year", 2)
        p8 == COMMA_OR_FAIL(p7, buffer)
        p9 == assign_integer(parse_integer(p8, buffer, buffer_len), "zone_hour", 1)
        p10 == COMMA_OR_FAIL(p9, buffer)
        p11 == assign_integer(parse_integer(p10, buffer, buffer_len), "zone_min", 1)
    IN  return_check_checksum(p11, buffer, buffer_len)

\* any other sentence taken whatever its checksum
gpsutil_parse_sentence_unused_mut(p, buffer, buffer_len) == TRUE

\* Any other sentence: true as long as the checksum is correct
gpsutil_parse_sentence_unused(p, buffer, buffer_len) ==
    check_checksum(consume_until_checksum(p, buffer, buffer_len),
                   buffer, buffer_len)

----------------------------------------------------------------------------
(* gps_util.h, gps_util.c: the status register and the framing              *)

\* #define GPS_STATUS_INIT
GPS_STATUS_INIT ==
    [gps_valid |-> FALSE, gps_time_valid |-> FALSE,
     gps_lat |-> FZero, gps_lon |-> FZero, gps_alt |-> FZero,
     gps_sat_num |-> 0, utc_hour |-> 0, utc_min |-> 0, utc_sec |-> FZero,
     utc_year |-> 0, utc_month |-> 0, utc_day |-> 0,
     buffer |-> [i \in 0..(BUFSIZE - 1) |-> 0], buffer_pos |-> 0,
     in_sentence |-> FALSE,
     last_position_update |-> 0, last_time_update |-> 0]

\* the year deciding the validity of the position as well
determine_time_validity_fix_mut(gs) ==
    [gs EXCEPT !.gps_time_valid = (gs.utc_year > 1000),
               !.gps_valid = (gs.utc_year > 1000)]

\* a time never valid twice in a row
determine_time_validity_flip_mut(gs) ==
    [gs EXCEPT !.gps_time_valid = (gs.utc_year > 1000) /\ ~gs.gps_time_valid]

\* every committed time valid, whatever the year
determine_time_validity_any_mut(gs) == [gs EXCEPT !.gps_time_valid = TRUE]

\* the validity left as it was
determine_time_validity_mut(gs) == gs

determine_time_validity(gs) ==
    [gs EXCEPT !.gps_time_valid = (gs.utc_year > 1000)]

\* the commit that stamps nothing
commit_timestamps_mut(gs, position, time, ts) == gs

\* "Each committed group timestamps last_position_update or last_time_update
\* with the current monotonic counter": the stamping of the committing
\* branches of parse_sentence, ts being timestamp_micros()
commit_timestamps(gs, position, time, ts) ==
    [gs EXCEPT !.last_position_update = IF position THEN ts ELSE @,
               !.last_time_update = IF time THEN ts ELSE @]

\* Returns whether the current sentence is used, with the register after it,
\* the cursor where the parse stopped and the largest index into NEGPOW_10
parse_sentence(gs, oob, ts) ==
    LET buffer == gs.buffer
        buffer_len == gs.buffer_pos
        start == Parser(Xor8(Xor8(Xor8(Xor8(buffer[0], buffer[1]), buffer[2]),
                                  buffer[3]), buffer[4]), 5)
        type0 == buffer[2]
        type1 == buffer[3]
        type2 == buffer[4]
        c == COMMA_OR_FAIL(start, buffer)
        unused(r) == [result |-> FALSE, gs |-> gs, cur |-> r.cur, idx |-> r.idx]
        other == consume_until_checksum(start, buffer, buffer_len)
        gga(r) ==
            IF ~r.ok THEN unused(r)
            ELSE [result |-> TRUE, cur |-> r.cur, idx |-> r.idx,
                  gs |-> commit_timestamps(determine_time_validity(
                         [gs EXCEPT !.gps_lat = r.lat, !.gps_lon = r.lon,
                                    !.gps_valid = r.fix_quality > 0,
                                    !.gps_alt = r.altitude,
                                    !.gps_sat_num = r.num_satellites,
                                    !.utc_hour = r.hour, !.utc_min = r.min,
                                    !.utc_sec = r.sec]), TRUE, TRUE, ts)]
        gll(r) ==
            IF ~r.ok THEN unused(r)
            ELSE [result |-> TRUE, cur |-> r.cur, idx |-> r.idx,
                  gs |-> commit_timestamps(determine_time_validity(
                         [gs EXCEPT !.gps_lat = r.lat, !.gps_lon = r.lon,
                                    !.gps_valid = r.valid,
                                    !.utc_hour = r.hour, !.utc_min = r.min,
                                    !.utc_sec = r.sec]), TRUE, TRUE, ts)]
        rmc(r) ==
            IF ~r.ok THEN unused(r)
            ELSE [result |-> TRUE, cur |-> r.cur, idx |-> r.idx,
                  gs |-> commit_timestamps(determine_time_validity(
                         [gs EXCEPT !.gps_valid = r.valid,
                                    !.gps_lat = r.lat, !.gps_lon = r.lon,
                                    !.utc_hour = r.hour, !.utc_min = r.min,
                                    !.utc_sec = r.sec]), TRUE, TRUE, ts)]
        zda(r) ==
            IF ~r.ok THEN unused(r)
            ELSE [result |-> TRUE, cur |-> r.cur, idx |-> r.idx,
                  gs |-> commit_timestamps(determine_time_validity(
                         [gs EXCEPT !.utc_hour = r.hour, !.utc_min = r.min,
                                    !.utc_sec = r.sec, !.utc_year = r.year,
                                    !.utc_month = r.month,
                                    !.utc_day = r.day]), FALSE, TRUE, ts)]
    IN  IF buffer_len < 6 THEN unused([cur |-> 0, idx |-> 0])
        ELSE IF type0 = CH.G /\ type1 = CH.G /\ type2 = CH.A
        THEN IF ~c.ok THEN unused(c)
             ELSE gga(gpsutil_parse_sentence_gga(c, buffer, buffer_len, oob))
        ELSE IF type0 = CH.G /\ type1 = CH.L /\ type2 = CH.L
        THEN IF ~c.ok THEN unused(c)
             ELSE gll(gpsutil_parse_sentence_gll(c, buffer, buffer_len, oob))
        ELSE IF type0 = CH.R /\ type1 = CH.M /\ type2 = CH.C
        THEN IF ~c.ok THEN unused(c)
             ELSE rmc(gpsutil_parse_sentence_rmc(c, buffer, buffer_len, oob))
        ELSE IF type0 = CH.Z /\ type1 = CH.D /\ type2 = CH.A
        THEN IF ~c.ok THEN unused(c)
             ELSE zda(gpsutil_parse_sentence_zda(c, buffer, buffer_len, oob))
        ELSE [result |-> gpsutil_parse_sentence_unused(start, buffer, buffer_len),
              gs |-> gs, cur |-> other.cur, idx |-> other.idx]

\* the framing that stays in the sentence after a CR or LF
gpsutil_feed_crlf_mut(gs, c, oob, ts) ==
    IF c = CH.dollar
    THEN [result |-> FALSE, parsed |-> FALSE,
          gs |-> [gs EXCEPT !.in_sentence = TRUE, !.buffer_pos = 0]]
    ELSE IF ~gs.in_sentence
    THEN [result |-> FALSE, parsed |-> FALSE, gs |-> gs]
    ELSE IF c = CH.cr \/ c = CH.lf
    THEN IF gs.buffer_pos > 0
         THEN LET parsed(r) == [result |-> r.result, parsed |-> TRUE, gs |-> r.gs]
              IN  parsed(parse_sentence(
                             [gs EXCEPT !.buffer[gs.buffer_pos] = CH.nul], oob, ts))
         ELSE [result |-> FALSE, parsed |-> FALSE, gs |-> gs]
    ELSE IF gs.buffer_pos < BUFSIZE - 1
    THEN [result |-> FALSE, parsed |-> FALSE,
          gs |-> [gs EXCEPT !.buffer[gs.buffer_pos] = c,
                            !.buffer_pos = gs.buffer_pos + 1]]
    ELSE [result |-> FALSE, parsed |-> FALSE,
          gs |-> [gs EXCEPT !.in_sentence = FALSE]]

\* the framing with a '$' that opens a sentence and leaves the cursor where
\* it is
gpsutil_feed_dollar_mut(gs, c, oob, ts) ==
    IF c = CH.dollar
    THEN [result |-> FALSE, parsed |-> FALSE,
          gs |-> [gs EXCEPT !.in_sentence = TRUE]]
    ELSE IF ~gs.in_sentence
    THEN [result |-> FALSE, parsed |-> FALSE, gs |-> gs]
    ELSE IF c = CH.cr \/ c = CH.lf
    THEN IF gs.buffer_pos > 0
         THEN LET parsed(r) == [result |-> r.result, parsed |-> TRUE, gs |-> r.gs]
              IN  parsed(parse_sentence(
                             [gs EXCEPT !.in_sentence = FALSE,
                                        !.buffer[gs.buffer_pos] = CH.nul], oob, ts))
         ELSE [result |-> FALSE, parsed |-> FALSE,
               gs |-> [gs EXCEPT !.in_sentence = FALSE]]
    ELSE IF gs.buffer_pos < BUFSIZE - 1
    THEN [result |-> FALSE, parsed |-> FALSE,
          gs |-> [gs EXCEPT !.buffer[gs.buffer_pos] = c,
                            !.buffer_pos = gs.buffer_pos + 1]]
    ELSE [result |-> FALSE, parsed |-> FALSE,
          gs |-> [gs EXCEPT !.in_sentence = FALSE]]

\* the framing with a check of the cursor against the size of the buffer
\* instead of the size less one
gpsutil_feed_mut(gs, c, oob, ts) ==
    IF c = CH.dollar
    THEN [result |-> FALSE, parsed |-> FALSE,
          gs |-> [gs EXCEPT !.in_sentence = TRUE, !.buffer_pos = 0]]
    ELSE IF ~gs.in_sentence
    THEN [result |-> FALSE, parsed |-> FALSE, gs |-> gs]
    ELSE IF c = CH.cr \/ c = CH.lf
    THEN IF gs.buffer_pos > 0
         THEN LET parsed(r) == [result |-> r.result, parsed |-> TRUE, gs |-> r.gs]
              IN  parsed(parse_sentence(
                             [gs EXCEPT !.in_sentence = FALSE,
                                        !.buffer[gs.buffer_pos] = CH.nul], oob, ts))
         ELSE [result |-> FALSE, parsed |-> FALSE,
               gs |-> [gs EXCEPT !.in_sentence = FALSE]]
    ELSE IF gs.buffer_pos < BUFSIZE
    THEN [result |-> FALSE, parsed |-> FALSE,
          gs |-> [gs EXCEPT !.buffer[gs.buffer_pos] = c,
                            !.buffer_pos = gs.buffer_pos + 1]]
    ELSE [result |-> FALSE, parsed |-> FALSE,
          gs |-> [gs EXCEPT !.in_sentence = FALSE]]

\* Feed a character to the parser: [result |-> true if a sentence is parsed
\* successfully, parsed |-> parse_sentence was called, gs |-> the register]
gpsutil_feed(gs, c, oob, ts) ==
    IF c = CH.dollar
    THEN [result |-> FALSE, parsed |-> FALSE,
          gs |-> [gs EXCEPT !.in_sentence = TRUE, !.buffer_pos = 0]]
    ELSE IF ~gs.in_sentence
    THEN [result |-> FALSE, parsed |-> FALSE, gs |-> gs]
    ELSE IF c = CH.cr \/ c = CH.lf
    THEN IF gs.buffer_pos > 0
         THEN LET parsed(r) == [result |-> r.result, parsed |-> TRUE, gs |-> r.gs]
              IN  parsed(parse_sentence(
                             [gs EXCEPT !.in_sentence = FALSE,
                                        !.buffer[gs.buffer_pos] = CH.nul], oob, ts))
         ELSE [result |-> FALSE, parsed |-> FALSE,
               gs |-> [gs EXCEPT !.in_sentence = FALSE]]
    ELSE IF gs.buffer_pos < BUFSIZE - 1
    THEN [result |-> FALSE, parsed |-> FALSE,
          gs |-> [gs EXCEPT !.buffer[gs.buffer_pos] = c,
                            !.buffer_pos = gs.buffer_pos + 1]]
    ELSE [result |-> FALSE, parsed |-> FALSE,
          gs |-> [gs EXCEPT !.in_sentence = FALSE]]

----------------------------------------------------------------------------
(* The GPS module and the UART (gps.c)                                      *)

VARIABLES
    gps_status,     \* static struct gps_status gps_status (gps.c)
    uart,           \* bytes received by the UART and not yet read
    tape,           \* bytes of the current sentence the GPS module has yet to send
    sent,           \* the sentence the GPS module sent last, and how many so far
    now,            \* the monotonic microsecond counter
    ev,             \* the operation that ran last, with what it observed
    state,          \* static struct ntp_client ntp_state (main.c)
    ntp_stratum,    \* static volatile uint8_t ntp_stratum (ntp.c)
    ntp_ref,        \* static volatile uint32_t ntp_ref
    sync_expiry,    \* static volatile absolute_time_t sync_expiry
    ntp_us_offset,  \* static volatile absolute_time_t ntp_us_offset
    rtc,            \* the hardware real-time clock
    udp_pcbs,       \* the open UDP endpoints of lwIP
    dns_requests,   \* resolver requests whose callback is still to come
    budget,         \* how much of each bound of the run is left
    hist,           \* what has happened so far
    common          \* the statics of ntp_common.c and the caller's position

gps_vars == <<gps_status, uart, tape, sent>>

ntp_vars ==
    <<state, ntp_stratum, ntp_ref, sync_expiry, ntp_us_offset, rtc, udp_pcbs,
      dns_requests, hist>>

vars == <<gps_vars, ntp_vars, now, budget, common, ev>>

\* Sentence bodies (between '$' and '*'), as ASCII codes
Bodies ==
    <<
    \* 1: GNZDA,060618.133,23,02,2023,00,00   (*40)
    <<71, 78, 90, 68, 65, 44, 48, 54, 48, 54, 49, 56, 46, 49, 51, 51, 44,
    50, 51, 44, 48, 50, 44, 50, 48, 50, 51, 44, 48, 48, 44, 48, 48>>,
    \* 2: GPRMC,081836,A,3751.65,S,14507.36,E,000.0,360.0,130998,011.3,E   (*62)
    <<71, 80, 82, 77, 67, 44, 48, 56, 49, 56, 51, 54, 44, 65, 44, 51, 55,
    53, 49, 46, 54, 53, 44, 83, 44, 49, 52, 53, 48, 55, 46, 51, 54, 44, 69,
    44, 48, 48, 48, 46, 48, 44, 51, 54, 48, 46, 48, 44, 49, 51, 48, 57, 57,
    56, 44, 48, 49, 49, 46, 51, 44, 69>>,
    \* 3: GNGGA,,,,,,0,00,25.5,,,,,,   (*64)
    <<71, 78, 71, 71, 65, 44, 44, 44, 44, 44, 44, 48, 44, 48, 48, 44, 50,
    53, 46, 53, 44, 44, 44, 44, 44, 44>>,
    \* 4: GNGLL,,,,,,V,N   (*7A)
    <<71, 78, 71, 76, 76, 44, 44, 44, 44, 44, 44, 86, 44, 78>>,
    \* 5: GNZDA,,,,,,   (*56)
    <<71, 78, 90, 68, 65, 44, 44, 44, 44, 44, 44>>,
    \* 6: GPGGA,161229.487,3723.2475,N,12158.3416,W,1,07,1.0,9.0,M,1.0,M,1,0000   (*4B)
    <<71, 80, 71, 71, 65, 44, 49, 54, 49, 50, 50, 57, 46, 52, 56, 55, 44,
    51, 55, 50, 51, 46, 50, 52, 55, 53, 44, 78, 44, 49, 50, 49, 53, 56, 46,
    51, 52, 49, 54, 44, 87, 44, 49, 44, 48, 55, 44, 49, 46, 48, 44, 57, 46,
    48, 44, 77, 44, 49, 46, 48, 44, 77, 44, 49, 44, 48, 48, 48, 48>>,
    \* 7: GPGSV,1,1,00   (*79)
    <<71, 80, 71, 83, 86, 44, 49, 44, 49, 44, 48, 48>>,
    \* 8: GPGGA,161229.487,3723.2475,N,12158.3416,W,1,07,1.0,-,M,1.0,M,1,0000   (*41)
    <<71, 80, 71, 71, 65, 44, 49, 54, 49, 50, 50, 57, 46, 52, 56, 55, 44,
    51, 55, 50, 51, 46, 50, 52, 55, 53, 44, 78, 44, 49, 50, 49, 53, 56, 46,
    51, 52, 49, 54, 44, 87, 44, 49, 44, 48, 55, 44, 49, 46, 48, 44, 45, 44,
    77, 44, 49, 46, 48, 44, 77, 44, 49, 44, 48, 48, 48, 48>>,
    \* 9: GNGLL,3723.2475,X,12158.3416,W,161229.487,A   (*24)
    <<71, 78, 71, 76, 76, 44, 51, 55, 50, 51, 46, 50, 52, 55, 53, 44, 88,
    44, 49, 50, 49, 53, 56, 46, 51, 52, 49, 54, 44, 87, 44, 49, 54, 49, 50,
    50, 57, 46, 52, 56, 55, 44, 65>>,
    \* 10: GNZDA,06a618,23,02,2023,00,00   (*0E)
    <<71, 78, 90, 68, 65, 44, 48, 54, 97, 54, 49, 56, 44, 50, 51, 44, 48,
    50, 44, 50, 48, 50, 51, 44, 48, 48, 44, 48, 48>>,
    \* 11: GNZDA,060618.133,23,02,2100,00,00   (*40)
    <<71, 78, 90, 68, 65, 44, 48, 54, 48, 54, 49, 56, 46, 49, 51, 51, 44,
    50, 51, 44, 48, 50, 44, 50, 49, 48, 48, 44, 48, 48, 44, 48, 48>>
    >>

\* bodies holding a field that section 4.1 calls malformed: a '-' without
\* digits (8), a hemisphere that is no letter of its field (9), a letter in a
\* number (10)
MalformedBodies == {8, 9, 10}

RECURSIVE XorAll(_, _)
XorAll(body, p) ==
    IF p.n > Len(body) THEN p.x
    ELSE XorAll(body, [n |-> p.n + 1, x |-> Xor8(p.x, body[p.n])])

\* the XOR of every byte of the body
Checksum(body) == XorAll(body, [n |-> 1, x |-> 0])

\* "$" body "*hh" CR LF; a corrupt sentence declares another checksum
Sentence(i, corrupt) ==
    LET cs == IF corrupt THEN Xor8(Checksum(Bodies[i]), 1) ELSE Checksum(Bodies[i])
    IN  <<CH.dollar>> \o Bodies[i]
        \o <<CH.star, HEX(cs \div 16), HEX(cs % 16), CH.cr, CH.lf>>

\* sentences sent in one run
MaxSentences == 2

\* depth of the receive FIFO in the byte-wise specification
FifoDepth == 2

\* products read past the end of NEGPOW_10, in units of 10^-7
OobProducts == {0, 12345}

\* sleep_ms(1000) has passed when the main loop starts
BootTime == 1000000

\* The GPS module starts a sentence, dropping the rest of the one before
GpsTransmit(i, corrupt) ==
    /\ budget.sentences > 0
    /\ uart = <<>>
    /\ tape' = Sentence(i, corrupt)
    /\ sent' = [id |-> i, corrupt |-> corrupt]
    /\ budget' = [budget EXCEPT !.sentences = @ - 1]
    /\ ev' = [op |-> "GpsTransmit"]
    /\ UNCHANGED <<gps_status, uart, now, ntp_vars, common>>

\* One byte arrives at the UART
UartRxByte ==
    /\ tape # <<>>
    /\ Len(uart) < FifoDepth
    /\ uart' = Append(uart, Head(tape))
    /\ tape' = Tail(tape)
    /\ ev' = [op |-> "UartRxByte"]
    /\ UNCHANGED <<gps_status, sent, now, ntp_vars, budget, common>>

\* while (uart_is_readable(GPS_UART)) gpsutil_feed(&gps_status, uart_getc(GPS_UART))
RECURSIVE feed_available(_, _, _, _)
feed_available(r, bytes, oob, ts) ==
    IF r.n > Len(bytes) THEN r
    ELSE LET next(f) == [gs |-> f.gs, parsed |-> r.parsed \/ f.parsed,
                          result |-> IF f.parsed THEN f.result ELSE r.result,
                          n |-> r.n + 1]
         IN  feed_available(next(gpsutil_feed(r.gs, bytes[r.n], oob, ts)),
                            bytes, oob, ts)

\* Read whatever is in the UART, and parse it if it's a sentence
gps_parse_available ==
    /\ uart # <<>>
    /\ \E oob \in OobProducts :
          \E fed \in {feed_available([gs |-> gps_status, parsed |-> FALSE,
                                      result |-> FALSE, n |-> 1], uart, oob, now)} :
              /\ gps_status' = fed.gs
              /\ ev' = [op |-> "gps_parse_available", parsed |-> fed.parsed,
                        result |-> fed.result]
    /\ uart' = <<>>
    /\ UNCHANGED <<tape, sent, now, ntp_vars, budget, common>>

----------------------------------------------------------------------------
(* Integers wider than 31 bits.  A wide number is [hi, lo], its value       *)
(* hi * 65536 + lo with lo in 0..65535; a uint32_t is a wide number with    *)
(* hi in 0..65535.                                                          *)

W(n) == [hi |-> n \div 65536, lo |-> n % 65536]

WAdd(a, b) ==
    LET lo == a.lo + b.lo
    IN  [hi |-> a.hi + b.hi + (lo \div 65536), lo |-> lo % 65536]

\* a - b for a >= b
WSub(a, b) ==
    LET lo == a.lo - b.lo
    IN  IF lo >= 0 THEN [hi |-> a.hi - b.hi, lo |-> lo]
        ELSE [hi |-> a.hi - b.hi - 1, lo |-> lo + 65536]

WLess(a, b) == a.hi < b.hi \/ (a.hi = b.hi /\ a.lo < b.lo)

\* a % 1000000
WMod1000000(a) ==
    (((((a.hi * 256) % 1000000) * 256) % 1000000) + a.lo) % 1000000

\* (uint32_t)a
U32(a) == [hi |-> a.hi % 65536, lo |-> a.lo]

\* a + b, a - b and -a on uint32_t
U32Add(a, b) == U32(WAdd(a, b))

U32Neg(a) ==
    IF a.lo = 0 THEN [hi |-> (65536 - a.hi) % 65536, lo |-> 0]
    ELSE [hi |-> 65535 - a.hi, lo |-> 65536 - a.lo]

U32Sub(a, b) == U32Add(a, U32Neg(b))

\* (uint32_t)n for an int32_t n
U32OfInt(n) == IF n >= 0 THEN W(n) ELSE U32Neg(W(0 - n))

\* (a * 15625) >> 27 in 64-bit arithmetic, a a uint32_t
MulShift27(a) == ((a.hi * 15625) + ((a.lo * 15625) \div 65536)) \div 2048

\* (a * 15625) >> 27 in 32-bit arithmetic: the product wraps at 2^32
MulShift27Wrapped(a) ==
    (((a.hi * 15625) + ((a.lo * 15625) \div 65536)) % 65536) \div 2048

\* (uint32_t)(((uint64_t)u << 26) / 15625), u a uint32_t
ShiftDiv26(u) ==
    LET n == (3036 * u.hi) + u.lo          \* u = 15625 * (4 * u.hi) + n
        q == (4 * u.hi) + (n \div 15625)
        r == n % 15625
        a == (r * 8192) \div 15625
        b == (r * 8192) % 15625
    IN  U32Add([hi |-> (q % 64) * 1024, lo |-> 0],
               W((a * 8192) + ((b * 8192) \div 15625)))

----------------------------------------------------------------------------
(* Calendar time.  A time_t is [d, s]: days since 1970-01-01 and seconds    *)
(* of the day.                                                              *)

\* t + n seconds
TimeAdd(t, n) ==
    [d |-> t.d + ((t.s + n) \div 86400), s |-> (t.s + n) % 86400]

\* a uint32_t count of seconds as a time_t
TimeOfU32(u) ==
    LET y == (512 * u.hi) + (u.lo \div 128)        \* value \div 128
    IN  [d |-> y \div 675, s |-> ((y % 675) * 128) + (u.lo % 128)]

\* (uint32_t)t
U32OfTime(t) ==
    LET y == (t.d * 675) + (t.s \div 128)
    IN  [hi |-> (y \div 512) % 65536, lo |-> ((y % 512) * 128) + (t.s % 128)]

\* days since 1970-01-01 of a civil date; months outside 1..12 carry into
\* the year, days outside the month into the months, as mktime does
days_from_civil(year, month, day) ==
    LET y0 == year + ((month - 1) \div 12)
        m == ((month - 1) % 12) + 1
        y == IF m <= 2 THEN y0 - 1 ELSE y0
        era == y \div 400
        yoe == y - (era * 400)
        mp == (m + 9) % 12
        doy == (((153 * mp) + 2) \div 5) + day - 1
        doe == (yoe * 365) + (yoe \div 4) - (yoe \div 100) + doy
    IN  (era * 146097) + doe - 719468

\* the civil date of a day number
civil_from_days(z) ==
    LET z1 == z + 719468
        era == z1 \div 146097
        doe == z1 - (era * 146097)
        yoe == (doe - (doe \div 1460) + (doe \div 36524) - (doe \div 146096)) \div 365
        doy == doe - ((365 * yoe) + (yoe \div 4) - (yoe \div 100))
        mp == ((5 * doy) + 2) \div 153
        m == IF mp < 10 THEN mp + 3 ELSE mp - 9
    IN  [year |-> yoe + (era * 400) + (IF m <= 2 THEN 1 ELSE 0), month |-> m,
         day |-> doy - (((153 * mp) + 2) \div 5) + 1]

\* mktime() of the fields of a struct tm, in UTC
mktime(tm) ==
    TimeAdd([d |-> days_from_civil(tm.tm_year + 1900, tm.tm_mon + 1, tm.tm_mday),
             s |-> 0],
            (tm.tm_hour * 3600) + (tm.tm_min * 60) + tm.tm_sec)

\* gmtime() into a datetime_t
unix_to_datetime(t) ==
    LET c == civil_from_days(t.d)
    IN  [year |-> c.year, month |-> c.month, day |-> c.day,
         hour |-> t.s \div 3600, min |-> (t.s % 3600) \div 60, sec |-> t.s % 60]

datetime_to_unix(dt) ==
    [d |-> days_from_civil(dt.year, dt.month, dt.day),
     s |-> (dt.hour * 3600) + (dt.min * 60) + dt.sec]

----------------------------------------------------------------------------
(* The real-time clock and the discipline state (ntp.c)                     *)

\* Seconds between 1 Jan 1900 and 1 Jan 1970: 2208988800
NTP_DELTA == [hi |-> 33706, lo |-> 32384]

\* "GPS\0" in host byte order: 0x47505300
NTP_REF_GPS == [hi |-> 18256, lo |-> 21248]

NTP_MSG_LEN == 48

NTP_VERSION == 4

NTP_PORT == 123

\* Time between NTP syncs, in microseconds
NTP_INTERVAL_US == 120000000

\* Time to wait in case UDP requests are lost, in microseconds
NTP_UDP_TIMEOUT_TIME_US == 5000000

\* twice the offset in seconds up to which the clock is slewed
NTP_EPSILON2 == 2

GPS_PPS_PIN == 14

BUTTON1_PIN == 18

GPIO_IRQ_EDGE_FALL == 4

GPIO_IRQ_EDGE_RISE == 8

PPS_EDGE_TYPE == GPIO_IRQ_EDGE_RISE

BUTTON1_EDGE_TYPE == GPIO_IRQ_EDGE_FALL

\* the RTC accepts years of 12 bits
valid_datetime(dt) == dt.year >= 0 /\ dt.year <= 4095

\* rtc_get_datetime() at counter value t, for a running RTC
rtc_get_datetime(r, t) ==
    unix_to_datetime(TimeAdd(datetime_to_unix(r.dt), (t - r.set_at) \div 1000000))

\* rtc_set_datetime() at counter value t; an invalid datetime is refused
rtc_set_datetime(r, dt, t) ==
    IF valid_datetime(dt) THEN [running |-> TRUE, dt |-> dt, set_at |-> t] ELSE r

\* The statics of ntp.c and the RTC as one record; updated says whether
\* ntp_update_rtc took effect, assert_failed whether an assert did not hold
Discipline ==
    [ntp_stratum |-> ntp_stratum, ntp_ref |-> ntp_ref,
     sync_expiry |-> sync_expiry, ntp_us_offset |-> ntp_us_offset, rtc |-> rtc,
     updated |-> FALSE, assert_failed |-> FALSE]

\* the update without the renewal of sync_expiry
ntp_update_rtc_mut(d, result, stratum, ref, t) ==
    LET dt == unix_to_datetime(result)
    IN  IF valid_datetime(dt)
        THEN [d EXCEPT !.rtc = rtc_set_datetime(d.rtc, dt, t),
                       !.ntp_stratum = (stratum + 1) % 256,
                       !.ntp_ref = ref,
                       !.updated = TRUE]
        ELSE d

ntp_update_rtc(d, result, stratum, ref, t) ==
    LET dt == unix_to_datetime(result)
    IN  IF valid_datetime(dt)
        THEN [d EXCEPT !.rtc = rtc_set_datetime(d.rtc, dt, t),
                       !.ntp_stratum = (stratum + 1) % 256,
                       !.ntp_ref = ref,
                       !.sync_expiry = t + NTP_INTERVAL_US,
                       !.updated = TRUE]
        ELSE d

\* value is a uint32_t; 1000000 - value wraps when the assert does not hold
ntp_set_utc_us(d, value, t) ==
    [d EXCEPT !.ntp_us_offset = WAdd(W(t), U32Sub(W(1000000), value)),
              !.assert_failed = @ \/ ~WLess(value, W(1000000))]

\* the remainder has the sign of the difference and is cast to uint32_t
ntp_get_utc_us(d, t) ==
    IF WLess(W(t), d.ntp_us_offset)
    THEN LET r == WMod1000000(WSub(d.ntp_us_offset, W(t)))
         IN  U32Neg(W(r))
    ELSE W(WMod1000000(WSub(W(t), d.ntp_us_offset)))

\* offset is an int32_t; the sum is formed in uint32_t and is never negative
ntp_apply_us_offset(d, offset, t) ==
    LET sum == U32Add(ntp_get_utc_us(d, t), U32OfInt(offset))
        carry == ~WLess(sum, W(1000000))
        new_us == IF carry THEN WSub(sum, W(1000000)) ELSE sum
        d1 == ntp_set_utc_us(d, new_us, t)
    IN  IF carry /\ d1.rtc.running
        THEN [d1 EXCEPT !.rtc = rtc_set_datetime(d1.rtc,
                  unix_to_datetime(TimeAdd(
                      datetime_to_unix(rtc_get_datetime(d1.rtc, t)), 1)), t)]
        ELSE d1

\* The transmit timestamp of a request: zero while the RTC is not running
ntp_fill_tx(d, t) ==
    IF ~d.rtc.running THEN [sec |-> W(0), frac |-> W(0)]
    ELSE [sec |-> U32Add(U32OfTime(datetime_to_unix(rtc_get_datetime(d.rtc, t))),
                         NTP_DELTA),
          frac |-> ShiftDiv26(ntp_get_utc_us(d, t))]

ntp_fill_rx_as_ref(incoming, d, t) ==
    IF ~d.rtc.running THEN incoming
    ELSE [incoming EXCEPT
              !.ref_ts_sec = U32Add(U32OfTime(datetime_to_unix(
                                 rtc_get_datetime(d.rtc, t))), NTP_DELTA),
              !.ref_ts_frac = ShiftDiv26(ntp_get_utc_us(d, t))]

\* The branch ntp_process_response takes: soffset2 is formed in uint32_t
soffset2(incoming) ==
    U32Add(U32Sub(incoming.rx_ts_sec, incoming.orig_ts_sec),
           U32Sub(incoming.tx_ts_sec, incoming.ref_ts_sec))

big_offset(incoming) ==
    soffset2(incoming).hi > 0 \/ soffset2(incoming).lo > NTP_EPSILON2

\* The correction of the other branch: foffset2 is formed in uint32_t, and
\* soffset2, which is 0, 1 or 2 there, adds half a second when it is odd
foffset_us(incoming) ==
    LET foffset2 == U32Add(U32Sub(incoming.rx_ts_frac, incoming.orig_ts_frac),
                           U32Sub(incoming.tx_ts_frac, incoming.ref_ts_frac))
    IN  MulShift27(foffset2)
        + (IF soffset2(incoming).lo % 2 = 1 THEN 500000 ELSE 0)

ntp_process_response(d, incoming, stratum, ref, t) ==
    IF big_offset(incoming)
    THEN ntp_set_utc_us(
             ntp_update_rtc(d, TimeOfU32(U32Sub(incoming.tx_ts_sec, NTP_DELTA)),
                            stratum, ref, t),
             W(MulShift27Wrapped(incoming.tx_ts_frac)), t)
    ELSE ntp_apply_us_offset(d, foffset_us(incoming), t)

----------------------------------------------------------------------------
(* The SNTP client (ntp.c) and lwIP                                         *)

NULL == 0

\* no address: the ipaddr argument of a failed resolver callback
NoAddress == [hi |-> 0 - 1, lo |-> 0 - 1]

\* addresses as the number a.b.c.d reads in base 256: the server 192.0.2.1,
\* and a stranger 192.0.2.2
ServerAddress == [hi |-> 49152, lo |-> 513]

OtherAddress == [hi |-> 49152, lo |-> 514]

\* UDP endpoints lwIP can have open for the client
MaxPcbs == 2

\* resolver requests that can await their callback
MaxDns == 2

\* the bytes of a uint32_t in reverse order
lwip_htonl(a) ==
    [hi |-> ((a.lo % 256) * 256) + (a.lo \div 256),
     lo |-> ((a.hi % 256) * 256) + (a.hi \div 256)]

\* ip4_addr_get_u32: the address as stored, in network byte order
ntp_make_ref(addr) == lwip_htonl(addr)

\* the client with the endpoints of lwIP; sent says whether a request went out
Client == [state |-> state, udp_pcbs |-> udp_pcbs, sent |-> FALSE, closed |-> NULL]

udp_remove(pcbs, pcb) == [i \in (DOMAIN pcbs) \ {pcb} |-> pcbs[i]]

\* the request closed without udp_remove
ntp_req_close_mut(c) ==
    [c EXCEPT !.state.pcb = NULL, !.state.in_progress = FALSE]

\* Close this request
ntp_req_close(c) ==
    LET c1 == IF c.state.pcb # NULL
              THEN [c EXCEPT !.udp_pcbs = udp_remove(c.udp_pcbs, c.state.pcb),
                             !.closed = c.state.pcb,
                             !.state.pcb = NULL]
              ELSE c
    IN  [c1 EXCEPT !.state.in_progress = FALSE]

\* udp_new_ip_type(): the lowest free endpoint, NULL when there is none or
\* when the pool has no memory left
udp_new_ip_type(pcbs, alloc_ok) ==
    LET free == (1..MaxPcbs) \ (DOMAIN pcbs)
    IN  IF alloc_ok /\ free # {}
        THEN CHOOSE id \in free : \A other \in free : id <= other
        ELSE NULL

\* Make an NTP request
do_send_ntp_request(c, ipaddr, alloc_ok, d, t) ==
    IF ipaddr = NoAddress THEN ntp_req_close(c)
    ELSE LET pcb == udp_new_ip_type(c.udp_pcbs, alloc_ok)
             c1 == [c EXCEPT !.state.server_address = ipaddr,
                             !.state.pcb = pcb]
         IN  IF pcb = NULL THEN ntp_req_close(c1)
             ELSE [c1 EXCEPT
                       !.udp_pcbs = [i \in (DOMAIN c.udp_pcbs) \cup {pcb} |->
                                       IF i = pcb
                                       THEN [dest |-> ipaddr, tx |-> ntp_fill_tx(d, t)]
                                       ELSE c.udp_pcbs[i]],
                       !.sent = TRUE]

\* ntp_fill_pbuf: the message of a datagram of 48 bytes, in host byte order
ntp_fill_pbuf(dg) == [ok |-> dg.len = NTP_MSG_LEN, incoming |-> dg.msg]

\* NTP data received callback: the client and the discipline state after it,
\* with whether the response was processed
ntp_recv_cb(c, d, dg, t) ==
    LET filled == ntp_fill_pbuf(dg)
        incoming == ntp_fill_rx_as_ref(filled.incoming, d, t)
        mode == incoming.flags % 8
        version == (incoming.flags \div 8) % 8
        new_ref == lwip_htonl(ntp_make_ref(dg.addr))
        bad == \/ dg.addr # c.state.server_address
               \/ dg.port # NTP_PORT
               \/ ~filled.ok
               \/ incoming.stratum = 0
               \/ mode # 4
               \/ version # NTP_VERSION
    IN  [c |-> ntp_req_close(c),
         d |-> IF bad THEN d
               ELSE ntp_process_response(d, incoming, incoming.stratum, new_ref, t),
         processed |-> ~bad,
         big |-> ~bad /\ big_offset(incoming)]

\* the tick without the return when a request is in flight
ntp_client_check_run_mut(c, d, err, cached, alloc_ok, t) ==
    LET timed_out == c.state.in_progress /\ t > c.state.deadline
        c1 == IF timed_out THEN ntp_req_close(c) ELSE c
        c2 == [c1 EXCEPT !.state.deadline = t + NTP_UDP_TIMEOUT_TIME_US,
                         !.state.in_progress = TRUE]
        r0 == [c |-> c1, timed_out |-> timed_out, started |-> FALSE,
               in_progress_at_resolver |-> FALSE]
        r1 == [r0 EXCEPT !.started = TRUE,
                         !.in_progress_at_resolver = c2.state.in_progress]
    IN  IF t <= d.sync_expiry THEN r0
        ELSE IF err = "ERR_OK"
        THEN [r1 EXCEPT !.c = do_send_ntp_request(
                                  [c2 EXCEPT !.state.server_address = cached],
                                  cached, alloc_ok, d, t)]
        ELSE IF err # "ERR_INPROGRESS"
        THEN [r1 EXCEPT !.c = ntp_req_close(c2)]
        ELSE [r1 EXCEPT !.c = c2]

\* Check and see if the time should be synchronized.  err is what
\* dns_gethostbyname returns, cached the address it stores when it returns
\* ERR_OK
ntp_client_check_run(c, d, err, cached, alloc_ok, t) ==
    LET timed_out == c.state.in_progress /\ t > c.state.deadline
        c1 == IF timed_out THEN ntp_req_close(c) ELSE c
        c2 == [c1 EXCEPT !.state.deadline = t + NTP_UDP_TIMEOUT_TIME_US,
                         !.state.in_progress = TRUE]
        r0 == [c |-> c1, timed_out |-> timed_out, started |-> FALSE,
               in_progress_at_resolver |-> FALSE]
        r1 == [r0 EXCEPT !.started = TRUE,
                         !.in_progress_at_resolver = c2.state.in_progress]
    IN  IF t <= d.sync_expiry THEN r0
        ELSE IF c1.state.in_progress THEN r0
        ELSE IF err = "ERR_OK"
        THEN [r1 EXCEPT !.c = do_send_ntp_request(
                                  [c2 EXCEPT !.state.server_address = cached],
                                  cached, alloc_ok, d, t)]
        ELSE IF err # "ERR_INPROGRESS"
        THEN [r1 EXCEPT !.c = ntp_req_close(c2)]
        ELSE [r1 EXCEPT !.c = c2]

----------------------------------------------------------------------------
(* GPS time and the PPS interrupt (gps.c, irq.c)                            *)

\* Get the current time in UTC
\* "written" is what the call stores through its pointer
gpsutil_get_time(gs) ==
    [ok |-> gs.gps_time_valid,
     t |-> mktime([tm_year |-> gs.utc_year + 100, tm_mon |-> gs.utc_month - 1,
                   tm_mday |-> gs.utc_day, tm_hour |-> gs.utc_hour,
                   tm_min |-> gs.utc_min, tm_sec |-> gs.utc_sec.i]),
     written |-> IF ~gs.gps_time_valid THEN <<>>
                 ELSE <<mktime([tm_year |-> gs.utc_year + 100,
                                tm_mon |-> gs.utc_month - 1,
                                tm_mday |-> gs.utc_day, tm_hour |-> gs.utc_hour,
                                tm_min |-> gs.utc_min,
                                tm_sec |-> gs.utc_sec.i])>>]

\* the location handed out whatever the fix
gpsutil_get_location_mut(gs) ==
    [ok |-> TRUE, written |-> <<gs.gps_lat, gs.gps_lon, gs.gps_alt>>]

\* Get the current location; "written" is what the call stores through its
\* pointers
gpsutil_get_location(gs) ==
    IF ~gs.gps_valid THEN [ok |-> FALSE, written |-> <<>>]
    ELSE [ok |-> TRUE, written |-> <<gs.gps_lat, gs.gps_lon, gs.gps_alt>>]

\* the timestamp gpsutil_get_time hands out with the time
gpsutil_get_time_timestamp(gs) == gs.last_time_update

gps_get_time(gs, t) ==
    [ok |-> gpsutil_get_time(gs).ok, time |-> gpsutil_get_time(gs).t,
     age |-> t - gpsutil_get_time_timestamp(gs)]

\* the handler without the rejection of an old time
gps_update_rtc_mut(d, gs, t) ==
    LET g == gps_get_time(gs, t)
    IN  IF ~g.ok THEN [d |-> d, passed |-> FALSE]
        ELSE [d |-> ntp_update_rtc(ntp_set_utc_us(d, W(0), t), g.time, 0,
                                   NTP_REF_GPS, t),
              passed |-> TRUE]

\* the discipline state after the handler, with whether the time passed
gps_update_rtc(d, gs, t) ==
    LET g == gps_get_time(gs, t)
    IN  IF ~g.ok THEN [d |-> d, passed |-> FALSE]
        ELSE IF g.age > 1000000 THEN [d |-> d, passed |-> FALSE]
        ELSE [d |-> ntp_update_rtc(ntp_set_utc_us(d, W(0), t), g.time, 0,
                                   NTP_REF_GPS, t),
              passed |-> TRUE]

\* whether gpio_irq_handler calls gps_update_rtc
gpio_irq_is_pps(gpio, event_mask) ==
    gpio = GPS_PPS_PIN \/ Bit(event_mask, 3) = 1

----------------------------------------------------------------------------
(* The whole program: main loop, interrupts and callbacks                   *)

\* how often the clock advances in one run
MaxAdvances == 3

\* transactions the client starts and datagrams that arrive in one run of the
\* client alone
MaxRequests == 3

MaxDatagrams == 2

\* clock advances, sentences, transactions and datagrams in one run of the
\* whole program
MaxAdvancesWhole == 2

MaxLines == 1

MaxRequestsWhole == 1

MaxDatagramsWhole == 1

\* by how much the clock advances at once
ClockSteps == {1, 1000000, NTP_UDP_TIMEOUT_TIME_US, NTP_INTERVAL_US}

\* the sentences the GPS module sends to the whole program
SystemBodies == {1, 11}

\* 2023-02-23T06:06:17Z: the time of day when the counter started
TrueBase == [d |-> 19411, s |-> 21977]

\* the NTP timestamp of the server at counter value t
ServerTime(t) ==
    [sec |-> U32Add(U32OfTime(TimeAdd(TrueBase, t \div 1000000)), NTP_DELTA),
     frac |-> ShiftDiv26(W(t % 1000000))]

\* what a datagram can be: a response of a server of some stratum, or one
\* that differs from it in one respect
Responses ==
    {[kind |-> "good", stratum |-> st] : st \in {1, 15}}
    \cup {[kind |-> k, stratum |-> 1] :
            k \in {"address", "port", "length", "mode", "version"}}
    \cup {[kind |-> "stratum", stratum |-> 0]}

\* the datagram arriving at endpoint pcb at counter value t
Datagram(pcb, resp, t) ==
    [addr |-> IF resp.kind = "address" THEN OtherAddress ELSE udp_pcbs[pcb].dest,
     port |-> IF resp.kind = "port" THEN NTP_PORT + 1 ELSE NTP_PORT,
     len |-> IF resp.kind = "length" THEN NTP_MSG_LEN - 1 ELSE NTP_MSG_LEN,
     msg |-> [flags |-> ((IF resp.kind = "version" THEN 3 ELSE NTP_VERSION) * 8)
                        + (IF resp.kind = "mode" THEN 3 ELSE 4),
              stratum |-> resp.stratum,
              ref_ts_sec |-> ServerTime(0).sec,
              ref_ts_frac |-> ServerTime(0).frac,
              orig_ts_sec |-> udp_pcbs[pcb].tx.sec,
              orig_ts_frac |-> udp_pcbs[pcb].tx.frac,
              rx_ts_sec |-> ServerTime(t).sec,
              rx_ts_frac |-> ServerTime(t).frac,
              tx_ts_sec |-> ServerTime(t).sec,
              tx_ts_frac |-> ServerTime(t).frac]]

SetDiscipline(d) ==
    /\ ntp_stratum' = d.ntp_stratum
    /\ ntp_ref' = d.ntp_ref
    /\ sync_expiry' = d.sync_expiry
    /\ ntp_us_offset' = d.ntp_us_offset
    /\ rtc' = d.rtc

\* a failed assert halts the program
Panic(op) ==
    /\ hist' = [hist EXCEPT !.panicked = TRUE]
    /\ ev' = [op |-> op, panicked |-> TRUE]
    /\ UNCHANGED <<state, ntp_stratum, ntp_ref, sync_expiry, ntp_us_offset, rtc,
                   udp_pcbs, dns_requests>>

AdvanceClock(dt) ==
    /\ ~hist.panicked
    /\ budget.advances > 0
    /\ now' = now + dt
    /\ budget' = [budget EXCEPT !.advances = @ - 1]
    /\ ev' = [op |-> "AdvanceClock"]
    /\ UNCHANGED <<gps_vars, ntp_vars, common>>

\* A whole sentence arrives at the UART
GpsSentence(i) ==
    /\ ~hist.panicked
    /\ budget.sentences > 0
    /\ uart = <<>>
    /\ uart' = Sentence(i, FALSE)
    /\ sent' = [id |-> i, corrupt |-> FALSE]
    /\ budget' = [budget EXCEPT !.sentences = @ - 1]
    /\ ev' = [op |-> "GpsSentence"]
    /\ UNCHANGED <<gps_status, tape, now, ntp_vars, common>>

\* gps_parse_available() in the main loop
MainParseAvailable ==
    /\ ~hist.panicked
    /\ gps_parse_available

\* ntp_client_check_run(&ntp_state) in the main loop
MainCheckRun ==
    /\ ~hist.panicked
    /\ \E err \in {"ERR_OK", "ERR_INPROGRESS", "ERR_VAL"}, alloc_ok \in BOOLEAN :
          /\ err = "ERR_OK" => dns_requests = 0
          /\ err = "ERR_INPROGRESS" => dns_requests < MaxDns
          /\ \E r \in {ntp_client_check_run(Client, Discipline, err,
                                            ServerAddress, alloc_ok, now)} :
                 /\ r.started => budget.requests > 0
                 /\ budget' = [budget EXCEPT
                                  !.requests = IF r.started THEN @ - 1 ELSE @]
                 /\ state' = r.c.state
                 /\ udp_pcbs' = r.c.udp_pcbs
                 /\ dns_requests' = IF r.started /\ err = "ERR_INPROGRESS"
                                    THEN dns_requests + 1 ELSE dns_requests
                 /\ ev' = [op |-> "ntp_client_check_run",
                           timed_out |-> r.timed_out, started |-> r.started,
                           in_progress_at_resolver |-> r.in_progress_at_resolver,
                           err |-> IF r.started THEN err ELSE "none",
                           sent |-> r.c.sent, closed |-> r.c.closed]
    /\ UNCHANGED <<gps_vars, ntp_stratum, ntp_ref, sync_expiry, ntp_us_offset,
                   rtc, hist, now, common>>

\* the callbacks of n requests, the latest first
RECURSIVE dns_call_found(_, _, _, _, _, _)
dns_call_found(c, n, ipaddr, allocs, d, t) ==
    IF n = 0 THEN c
    ELSE dns_call_found(do_send_ntp_request(c, ipaddr, allocs[n], d, t),
                        n - 1, ipaddr, allocs, d, t)

\* The resolver has an answer, or gives up: it calls do_send_ntp_request for
\* every request that waits for the name
DnsFound ==
    /\ ~hist.panicked
    /\ dns_requests > 0
    /\ \E ipaddr \in {ServerAddress, NoAddress},
          allocs \in [1..dns_requests -> BOOLEAN] :
          \E c \in {dns_call_found(Client, dns_requests, ipaddr, allocs,
                                    Discipline, now)} :
              /\ state' = c.state
              /\ udp_pcbs' = c.udp_pcbs
              /\ ev' = [op |-> "do_send_ntp_request", calls |-> dns_requests,
                        found |-> ipaddr # NoAddress,
                        failed |-> c.state.pcb = NULL,
                        sent |-> c.sent, closed |-> c.closed]
    /\ dns_requests' = 0
    /\ UNCHANGED <<gps_vars, ntp_stratum, ntp_ref, sync_expiry, ntp_us_offset,
                   rtc, hist, now, budget, common>>

\* A datagram arrives at an open endpoint: lwIP calls ntp_recv_cb
UdpRecv ==
    /\ ~hist.panicked
    /\ budget.datagrams > 0
    /\ budget' = [budget EXCEPT !.datagrams = @ - 1]
    /\ \E pcb \in DOMAIN udp_pcbs, resp \in Responses :
          \E r \in {ntp_recv_cb(Client, Discipline, Datagram(pcb, resp, now), now)} :
          LET ok == r.processed /\ (~r.big \/ r.d.updated)
          IN  \/ /\ r.d.assert_failed
                 /\ Panic("ntp_recv_cb")
              \/ /\ state' = r.c.state
                 /\ udp_pcbs' = r.c.udp_pcbs
                 /\ SetDiscipline(r.d)
                 /\ hist' = [hist EXCEPT
                               !.updated = @ \/ r.d.updated,
                               !.sntp_ok_at = IF ok THEN now ELSE @]
                 /\ ev' = [op |-> "ntp_recv_cb", kind |-> resp.kind,
                           stratum |-> resp.stratum,
                           processed |-> r.processed, big |-> r.big,
                           updated |-> r.d.updated,
                           assert_failed |-> r.d.assert_failed,
                           panicked |-> FALSE]
                 /\ UNCHANGED dns_requests
    /\ UNCHANGED <<gps_vars, now, common>>

\* An edge on a GPIO pin: the PPS output of the GPS module, or the button
GpioIrq(gpio, event_mask) ==
    /\ ~hist.panicked
    /\ \E called \in {gpio_irq_is_pps(gpio, event_mask)} :
       \E r \in {IF called THEN gps_update_rtc(Discipline, gps_status, now)
                 ELSE [d |-> Discipline, passed |-> FALSE]} :
           /\ SetDiscipline(r.d)
           /\ hist' = [hist EXCEPT
                         !.updated = @ \/ r.d.updated,
                         !.pps_ok_at = IF r.d.updated /\ ~state.in_progress
                                       THEN now ELSE @]
           /\ ev' = [op |-> "gpio_irq_handler", gpio |-> gpio,
                     event_mask |-> event_mask, called |-> called,
                     passed |-> r.passed, updated |-> r.d.updated,
                     idle |-> ~state.in_progress]
    /\ UNCHANGED <<gps_vars, state, udp_pcbs, dns_requests, now, budget, common>>

----------------------------------------------------------------------------
(* The discipline engine of ntp_common.c.  Microseconds since the UNIX      *)
(* epoch are [s, us]; one of its updaters runs in the main context, where   *)
(* an interrupt handler that calls ntp_update_time can preempt it between   *)
(* the reading of the clock and the store to last_sync.                     *)

\* a + n microseconds
MicrosAdd(a, n) ==
    [s |-> a.s + ((a.us + n) \div 1000000), us |-> (a.us + n) % 1000000]

CommonInit ==
    [ntp_stratum |-> 16, ntp_ref |-> W(0), last_sync |-> 0,
     ntp_boot_us |-> [s |-> 0, us |-> 0],
     pc |-> "idle", read |-> 0, last_call |-> 0]

\* time: UTC time as UNIX timestamp, t the value of get_absolute_time()
ntp_update_time(c, time, stratum, ref, t) ==
    [c EXCEPT !.ntp_boot_us = MicrosAdd(time, 0 - t),
              !.ntp_stratum = stratum,
              !.ntp_ref = ref,
              !.last_sync = t]

\* Update with an offset
ntp_update_time_by_offset(c, offset, stratum, ref, t) ==
    [c EXCEPT !.ntp_boot_us = MicrosAdd(c.ntp_boot_us, offset),
              !.ntp_stratum = stratum,
              !.ntp_ref = ref,
              !.last_sync = t]

ntp_get_last_sync(c) == c.last_sync

\* 2023-02-23T06:06:17Z and a second later, as UNIX timestamps
CommonTimes == {[s |-> 1677132377, us |-> 0], [s |-> 1677132378, us |-> 250000]}

CommonOffsets == {0 - 1500, 700}

\* The main context has run an updater up to its last store: last_sync is
\* still to be assigned the clock value it has read
MainUpdateBegin ==
    /\ common.pc = "idle"
    /\ now > common.last_call
    /\ \E stratum \in {2, 3} :
          \/ \E time \in CommonTimes :
                LET u == ntp_update_time(common, time, stratum, ServerAddress, now)
                IN  common' = [u EXCEPT !.last_sync = common.last_sync,
                                        !.read = u.last_sync,
                                        !.pc = "store", !.last_call = now]
          \/ \E offset \in CommonOffsets :
                LET u == ntp_update_time_by_offset(common, offset, stratum,
                                                   ServerAddress, now)
                IN  common' = [u EXCEPT !.last_sync = common.last_sync,
                                        !.read = u.last_sync,
                                        !.pc = "store", !.last_call = now]
    /\ ev' = [op |-> "MainUpdateBegin"]
    /\ UNCHANGED <<gps_vars, ntp_vars, now, budget>>

\* last_sync = get_absolute_time(): the store
MainUpdateEnd ==
    /\ common.pc = "store"
    /\ common' = [common EXCEPT !.last_sync = common.read, !.pc = "idle"]
    /\ ev' = [op |-> "MainUpdateEnd", before |-> ntp_get_last_sync(common)]
    /\ UNCHANGED <<gps_vars, ntp_vars, now, budget>>

\* The PPS handler calls ntp_update_time in interrupt context
IsrUpdate ==
    /\ now > common.last_call
    /\ \E time \in CommonTimes :
          common' = [ntp_update_time(common, time, 1, NTP_REF_GPS, now)
                         EXCEPT !.last_call = now]
    /\ ev' = [op |-> "IsrUpdate", before |-> ntp_get_last_sync(common)]
    /\ UNCHANGED <<gps_vars, ntp_vars, now, budget>>

----------------------------------------------------------------------------
(* Specifications                                                           *)

\* after init(): ntp_client_init has set sync_expiry to the current time
InitState(b) ==
    /\ gps_status = GPS_STATUS_INIT
    /\ uart = <<>>
    /\ tape = <<>>
    /\ sent = [id |-> 0, corrupt |-> FALSE]
    /\ now = BootTime
    /\ ev = [op |-> "boot"]
    /\ state = [in_progress |-> FALSE, pcb |-> NULL, deadline |-> 0,
                server_address |-> W(0)]
    /\ ntp_stratum = 16
    /\ ntp_ref = W(0)
    /\ sync_expiry = BootTime
    /\ ntp_us_offset = W(0)
    /\ rtc = [running |-> FALSE, dt |-> unix_to_datetime([d |-> 0, s |-> 0]),
              set_at |-> 0]
    /\ udp_pcbs = <<>>
    /\ dns_requests = 0
    /\ hist = [updated |-> FALSE, sntp_ok_at |-> 0 - 1, pps_ok_at |-> 0 - 1,
               panicked |-> FALSE]
    /\ common = CommonInit
    /\ budget = b

\* the whole program
Init ==
    InitState([advances |-> MaxAdvancesWhole, sentences |-> MaxLines,
               requests |-> MaxRequestsWhole, datagrams |-> MaxDatagramsWhole])

Next ==
    \/ \E dt \in ClockSteps : AdvanceClock(dt)
    \/ \E i \in SystemBodies : GpsSentence(i)
    \/ MainParseAvailable
    \/ MainCheckRun
    \/ DnsFound
    \/ UdpRecv
    \/ GpioIrq(GPS_PPS_PIN, PPS_EDGE_TYPE)
    \/ GpioIrq(BUTTON1_PIN, BUTTON1_EDGE_TYPE)

Spec == Init /\ [][Next]_vars

\* the program built with ENABLE_GPS 0: the SNTP client alone
InitNtp ==
    InitState([advances |-> MaxAdvances, sentences |-> 0,
               requests |-> MaxRequests, datagrams |-> MaxDatagrams])

NextNtp ==
    \/ \E dt \in ClockSteps : AdvanceClock(dt)
    \/ MainCheckRun
    \/ DnsFound
    \/ UdpRecv

SpecNtp == InitNtp /\ [][NextNtp]_vars

\* the parser, fed byte by byte
InitGps ==
    InitState([advances |-> 0, sentences |-> MaxSentences,
               requests |-> 0, datagrams |-> 0])

NextGps ==
    \/ \E i \in 1..Len(Bodies), corrupt \in BOOLEAN : GpsTransmit(i, corrupt)
    \/ UartRxByte
    \/ gps_parse_available

SpecGps == InitGps /\ [][NextGps]_vars

\* the engine of ntp_common.c
InitCommon ==
    InitState([advances |-> MaxAdvances, sentences |-> 0,
               requests |-> 0, datagrams |-> 0])

NextCommon ==
    \/ \E dt \in ClockSteps : AdvanceClock(dt)
    \/ MainUpdateBegin
    \/ MainUpdateEnd
    \/ IsrUpdate

SpecCommon == InitCommon /\ [][NextCommon]_vars

\* A microsecond count goes out as the fraction of a timestamp
\* (((uint64_t)u << 26) / 15625, ntp_fill_tx) and comes back as microseconds
\* ((t3f * 15625) >> 27, ntp_process_response)
FractionRoundTrip(u) ==
    /\ \E frac \in {ShiftDiv26(W(u))} :
          ev' = [op |-> "fraction", u |-> u, frac |-> frac,
                 back |-> MulShift27Wrapped(frac)]
    /\ UNCHANGED <<gps_vars, ntp_vars, now, budget, common>>

InitFraction ==
    InitState([advances |-> 0, sentences |-> 0, requests |-> 0, datagrams |-> 0])

\* the microseconds converted: the ends of the range, the multiples of 15625
\* and the first value whose product wraps, with a hundred values in between
NextFraction ==
    \E u \in {0, 1, 15624, 15625, 15626, 274877, 274878, 500000, 999999}
              \cup {k * 10007 : k \in 0..99} :
        FractionRoundTrip(u)

\* the conversions between microseconds and NTP fractions
SpecFraction == InitFraction /\ [][NextFraction]_vars

\* calendar fields of the ZDA sentences whose time is read back: 2023-01-29
\* 00:13:13 among them, and a year that leaves the time invalid
CalendarFields ==
    [utc_year : {999, 1999, 2023, 2024, 2100}, utc_month : {1, 2, 12},
     utc_day : {1, 29}, utc_hour : {0, 23}, utc_min : {13}, utc_sec : {13}]

\* A whole ZDA sentence with the fields f arrives at the UART:
\* $GNZDA,hhmmss,dd,mm,yyyy,00,00*cs
ZdaSentence(f) ==
    /\ budget.sentences > 0
    /\ uart = <<>>
    /\ LET Digits2(n) == <<48 + (n \div 10), 48 + (n % 10)>>
           Digits4(n) == Digits2(n \div 100) \o Digits2(n % 100)
           sentence(body, cs) ==
               <<CH.dollar>> \o body
               \o <<CH.star, HEX(cs \div 16), HEX(cs % 16), CH.cr, CH.lf>>
       IN  \E body \in {<<CH.G, CH.N, CH.Z, CH.D, CH.A, CH.comma>>
                         \o Digits2(f.utc_hour) \o Digits2(f.utc_min)
                         \o Digits2(f.utc_sec)
                         \o <<CH.comma>> \o Digits2(f.utc_day)
                         \o <<CH.comma>> \o Digits2(f.utc_month)
                         \o <<CH.comma>> \o Digits4(f.utc_year)
                         \o <<CH.comma, 48, 48, CH.comma, 48, 48>>} :
               uart' = sentence(body, Checksum(body))
    /\ sent' = [id |-> 0, corrupt |-> FALSE]
    /\ budget' = [budget EXCEPT !.sentences = @ - 1]
    /\ ev' = [op |-> "ZdaSentence"]
    /\ UNCHANGED <<gps_status, tape, now, ntp_vars, common>>

\* gpsutil_get_time(&gps_status, &t) is called
GetTime ==
    /\ \E r \in {gpsutil_get_time(gps_status)} :
          ev' = [op |-> "gpsutil_get_time", ok |-> r.ok, t |-> r.t,
                 written |-> r.written]
    /\ UNCHANGED <<gps_vars, ntp_vars, now, budget, common>>

\* the parser and the reading of its time
InitGetTime ==
    InitState([advances |-> 0, sentences |-> MaxLines, requests |-> 0,
               datagrams |-> 0])

NextGetTime ==
    \/ \E f \in CalendarFields : ZdaSentence(f)
    \/ gps_parse_available
    \/ GetTime

SpecGetTime == InitGetTime /\ [][NextGetTime]_vars

----------------------------------------------------------------------------
(* The SNTP server (ntp_server.c) on the engine of ntp_common.c.  A message *)
(* on the wire and in memory is a sequence of bytes; the RP2040 stores a    *)
(* uint32_t with its least significant byte first.                          *)

\* the bytes of a uint32_t in memory, and in network byte order
LE32(a) == <<a.lo % 256, a.lo \div 256, a.hi % 256, a.hi \div 256>>

BE32(a) == <<a.hi \div 256, a.hi % 256, a.lo \div 256, a.lo % 256>>

ntp_get_stratum(c) == c.ntp_stratum

ntp_get_ref(c) == c.ntp_ref

\* ntp_get_utc_us() of ntp_common.c at counter value t, as [s, us]
ntp_common_get_utc_us(c, t) == MicrosAdd(c.ntp_boot_us, t)

\* The handler of the server: the replies it sends, as they are on the wire.
\* pbuf_copy_partial returns the number of bytes copied into received, which
\* keeps what the stack held (junk) where the copy did not reach; alloc_ok is
\* whether pbuf_alloc returns a buffer.  The handler reads the engine three
\* times: c at the first ntp_get_utc_us(), ch at ntp_get_stratum() and
\* ntp_get_ref(), c3 at the second ntp_get_utc_us().
ntp_server_recv_cb(c, ch, c3, dg, junk, alloc_ok, t) ==
    LET copied == IF dg.len < NTP_MSG_LEN THEN dg.len ELSE NTP_MSG_LEN
        result == copied # 0
        received == [i \in 1..NTP_MSG_LEN |->
                        IF i <= copied THEN dg.bytes[i] ELSE junk]
        utc == ntp_common_get_utc_us(c, t)
        utc3 == ntp_common_get_utc_us(c3, t)
        NtpSeconds(u) == U32Add(W(u.s), NTP_DELTA)
        NtpFraction(u) == ShiftDiv26(W(u.us))
    IN  IF ~result
        THEN [replies |-> <<>>, assert_failed |-> FALSE]
        ELSE IF ~alloc_ok
        THEN [replies |-> <<>>, assert_failed |-> TRUE]
        ELSE [replies |->
                <<[addr |-> dg.addr, port |-> dg.port,
                   flags |-> (NTP_VERSION * 8) + 4,
                   stratum |-> ntp_get_stratum(ch),
                   poll |-> 3,
                   precision |-> 250,
                   root_delay |-> LE32(W(0)),
                   root_dispersion |-> LE32(W(0)),
                   ref_id |-> LE32(ntp_get_ref(ch)),
                   ref_ts |-> LE32(W(0)) \o LE32(W(0)),
                   orig_ts |-> SubSeq(received, 41, 48),
                   rx_ts |-> LE32(lwip_htonl(NtpSeconds(utc)))
                             \o LE32(lwip_htonl(NtpFraction(utc))),
                   tx_ts |-> LE32(lwip_htonl(NtpSeconds(utc3)))
                             \o LE32(lwip_htonl(NtpFraction(utc3)))]>>,
              assert_failed |-> FALSE]

\* A datagram arrives at the endpoint of the server: lwIP calls
\* ntp_server_recv_cb.  The datagram comes from one of two senders and has
\* len bytes, each different from its neighbours; junk is what the stack
\* holds where received is placed.  The PPS interrupt is enabled while the
\* handler runs: isr tells whether gps_update_rtc calls ntp_update_time
\* before the handler reads stratum and reference, after it, or not at all;
\* it does so in the handling of requests of 48 bytes.
ServerRecv ==
    /\ ~hist.panicked
    /\ common.pc = "idle"
    /\ \E sender \in {[addr |-> OtherAddress, port |-> NTP_PORT],
                       [addr |-> ServerAddress, port |-> 50123]},
          len \in {0, 1, 47, 48, 49}, junk \in {0, 165}, alloc_ok \in BOOLEAN :
          \E dg \in {[addr |-> sender.addr, port |-> sender.port, len |-> len,
                       bytes |-> [i \in 1..len |-> (i * 5) % 256]]} :
          \E irq \in {[isr |-> "none", time |-> [s |-> 0, us |-> 0]]}
                     \cup (IF len = NTP_MSG_LEN /\ junk = 0 /\ alloc_ok
                           THEN [isr : {"early", "late"}, time : CommonTimes]
                           ELSE {}) :
          \E c3 \in {IF irq.isr = "none" THEN common
                      ELSE [ntp_update_time(common, irq.time, 1, NTP_REF_GPS,
                                            now) EXCEPT !.last_call = now]} :
          \E ch \in {IF irq.isr = "early" THEN c3 ELSE common} :
          \E r \in {ntp_server_recv_cb(common, ch, c3, dg, junk, alloc_ok,
                                       now)} :
              /\ hist' = [hist EXCEPT !.panicked = r.assert_failed]
              /\ irq.isr # "none" => now > common.last_call
              /\ common' = c3
              /\ ev' = [op |-> "ntp_server_recv_cb", request |-> dg,
                        replies |-> r.replies, panicked |-> r.assert_failed,
                        isr |-> irq.isr]
    /\ UNCHANGED <<gps_vars, state, ntp_stratum, ntp_ref, sync_expiry,
                   ntp_us_offset, rtc, udp_pcbs, dns_requests, now, budget>>

\* the updates of the engine, for as long as the program runs
ServerEngine ==
    /\ ~hist.panicked
    /\ \/ MainUpdateBegin
       \/ MainUpdateEnd
       \/ IsrUpdate

\* the program with the server: the engine and ntp_server_recv_cb
InitServer ==
    InitState([advances |-> MaxAdvancesWhole, sentences |-> 0,
               requests |-> 0, datagrams |-> 0])

NextServer ==
    \/ \E dt \in ClockSteps : AdvanceClock(dt)
    \/ ServerEngine
    \/ ServerRecv

SpecServer == InitServer /\ [][NextServer]_vars

\* The GPS module sends a sentence whose body has n bytes: the ZDA sentence
\* of Bodies[1] with its checksum, then filler up to the length
LongTransmit(n) ==
    /\ budget.sentences > 0
    /\ uart = <<>>
    /\ tape = <<>>
    /\ LET body(zda, cs) ==
               [i \in 1..n |->
                   IF i <= Len(zda) THEN zda[i]
                   ELSE IF i = Len(zda) + 1 THEN CH.star
                   ELSE IF i = Len(zda) + 2 THEN HEX(cs \div 16)
                   ELSE IF i = Len(zda) + 3 THEN HEX(cs % 16)
                   ELSE CH.zero]
       IN  tape' = <<CH.dollar>> \o body(Bodies[1], Checksum(Bodies[1]))
                   \o <<CH.cr, CH.lf>>
    /\ sent' = [id |-> 1, corrupt |-> FALSE]
    /\ budget' = [budget EXCEPT !.sentences = @ - 1]
    /\ ev' = [op |-> "LongTransmit"]
    /\ UNCHANGED <<gps_status, uart, now, ntp_vars, common>>

\* the framing of sentences as long as the buffer, fed byte by byte
InitFraming ==
    InitState([advances |-> 0, sentences |-> MaxSentences,
               requests |-> 0, datagrams |-> 0])

NextFraming ==
    \/ \E n \in {126, 127, 128, 129} : LongTransmit(n)
    \/ UartRxByte
    \/ gps_parse_available

SpecFraming == InitFraming /\ [][NextFraming]_vars

----------------------------------------------------------------------------
(* The parser fed whole lines while the clock runs, and the getters         *)

\* characters that arrive between two runs of the main loop
MaxBurst == 32

\* The GPS module starts a line: a body of Bodies, or one of two GLL
\* sentences of a valid fix, with the time (12) and with the time empty (13);
\* sent remembers the line before
GpsLine(i, corrupt) ==
    /\ budget.sentences > 0
    /\ uart = <<>>
    /\ tape = <<>>
    /\ \E body \in {IF i <= Len(Bodies) THEN Bodies[i]
                    ELSE IF i = Len(Bodies) + 1
                    THEN <<71, 78, 71, 76, 76, 44, 52, 57, 50, 50, 46, 49, 48,
                           51, 49, 44, 78, 44, 49, 48, 48, 50, 50, 46, 49, 50,
                           51, 52, 44, 87, 44, 48, 48, 50, 52, 51, 52, 46, 48,
                           48, 48, 44, 65, 44, 65>>
                    ELSE <<71, 78, 71, 76, 76, 44, 52, 57, 50, 50, 46, 49, 48,
                           51, 49, 44, 78, 44, 49, 48, 48, 50, 50, 46, 49, 50,
                           51, 52, 44, 87, 44, 44, 65, 44, 65>>} :
          \E cs \in {IF corrupt THEN Xor8(Checksum(body), 1)
                     ELSE Checksum(body)} :
              tape' = <<CH.dollar>> \o body
                      \o <<CH.star, HEX(cs \div 16), HEX(cs % 16), CH.cr, CH.lf>>
    /\ sent' = [id |-> i, corrupt |-> corrupt, before |-> sent]
    /\ budget' = [budget EXCEPT !.sentences = @ - 1]
    /\ ev' = [op |-> "GpsLine"]
    /\ UNCHANGED <<gps_status, uart, now, ntp_vars, common>>

\* The receive FIFO, empty, fills with the next bytes of the line
UartRxBurst ==
    /\ tape # <<>>
    /\ uart = <<>>
    /\ \E n \in {IF Len(tape) < MaxBurst THEN Len(tape)
                 ELSE MaxBurst} :
          /\ uart' = SubSeq(tape, 1, n)
          /\ tape' = SubSeq(tape, n + 1, Len(tape))
    /\ ev' = [op |-> "UartRxBurst"]
    /\ UNCHANGED <<gps_status, sent, now, ntp_vars, budget, common>>

\* gpsutil_get_location(&gps_status, &lat, &lon, &alt) is called
GetLocation ==
    /\ \E r \in {gpsutil_get_location(gps_status)} :
          ev' = [op |-> "gpsutil_get_location", ok |-> r.ok,
                 written |-> r.written]
    /\ UNCHANGED <<gps_vars, ntp_vars, now, budget, common>>

InitLines ==
    InitState([advances |-> MaxAdvancesWhole, sentences |-> MaxSentences,
               requests |-> 0, datagrams |-> 0])

NextLines ==
    \/ \E i \in 1..(Len(Bodies) + 2), corrupt \in BOOLEAN : GpsLine(i, corrupt)
    \/ UartRxBurst
    \/ gps_parse_available
    \/ \E dt \in {1, 1000000} : AdvanceClock(dt)
    \/ GetTime
    \/ GetLocation

SpecLines == InitLines /\ [][NextLines]_vars

----------------------------------------------------------------------------
(* The arithmetic of ntp_process_response                                   *)

\* A response of the server reaches ntp_process_response.  The request left
\* at the local time of this moment (with zero timestamps while the RTC is
\* not set); the server received it ds2 and answered ds3 whole seconds from
\* that time, at the fraction f of a second.
ProcessResponse(ds2, ds3, f) ==
    /\ ~hist.panicked
    /\ budget.datagrams > 0
    /\ budget' = [budget EXCEPT !.datagrams = @ - 1]
    /\ \E base \in {IF rtc.running THEN ntp_fill_tx(Discipline, now)
                    ELSE ServerTime(now)} :
       \E incoming \in {ntp_fill_rx_as_ref(
               [flags |-> (NTP_VERSION * 8) + 4, stratum |-> 1,
                ref_ts_sec |-> ServerTime(0).sec,
                ref_ts_frac |-> ServerTime(0).frac,
                orig_ts_sec |-> ntp_fill_tx(Discipline, now).sec,
                orig_ts_frac |-> ntp_fill_tx(Discipline, now).frac,
                rx_ts_sec |-> U32Add(base.sec, U32OfInt(ds2)),
                rx_ts_frac |-> f,
                tx_ts_sec |-> U32Add(base.sec, U32OfInt(ds3)),
                tx_ts_frac |-> f], Discipline, now)} :
       \E r \in {ntp_process_response(Discipline, incoming, 1,
                                      ntp_make_ref(ServerAddress), now)} :
           \/ /\ r.assert_failed
              /\ Panic("ntp_set_utc_us")
           \/ /\ SetDiscipline(r)
              /\ hist' = [hist EXCEPT !.updated = @ \/ r.updated]
              /\ ev' = [op |-> "ntp_process_response",
                        running |-> rtc.running,
                        t1 |-> [sec |-> incoming.orig_ts_sec,
                                frac |-> incoming.orig_ts_frac],
                        t2 |-> [sec |-> incoming.rx_ts_sec,
                                frac |-> incoming.rx_ts_frac],
                        t3 |-> [sec |-> incoming.tx_ts_sec,
                                frac |-> incoming.tx_ts_frac],
                        t4 |-> [sec |-> incoming.ref_ts_sec,
                                frac |-> incoming.ref_ts_frac],
                        big |-> big_offset(incoming),
                        foffset_us |-> foffset_us(incoming),
                        updated |-> r.updated,
                        assert_failed |-> r.assert_failed]
              /\ UNCHANGED <<state, udp_pcbs, dns_requests>>
    /\ UNCHANGED <<gps_vars, now, common>>

\* fractions of a second: 0, 0.463, 0.5, 0.537 and the last before 1
NextProcess ==
    \/ \E dt \in {1, 500000, 1000000} : AdvanceClock(dt)
    \/ \E ds2 \in {0 - 1, 0, 1, 2}, ds3 \in {0 - 1, 0, 1, 2},
          f \in {W(0), [hi |-> 30343, lo |-> 11010], [hi |-> 32768, lo |-> 0],
                 [hi |-> 35192, lo |-> 54525], [hi |-> 65535, lo |-> 65535]} :
          ProcessResponse(ds2, ds3, f)

SpecProcess == InitNtp /\ [][NextProcess]_vars

----------------------------------------------------------------------------
(* An updater of ntp_common.c in the main context, store by store           *)

\* The main context runs ntp_update_time or ntp_update_time_by_offset one
\* access at a time: it reads the clock and ntp_boot_us, then stores
\* ntp_boot_us, ntp_stratum, ntp_ref and last_sync.  job keeps the arguments
\* of the call, what it has read, and the engine as it was before.
MainUpdate ==
    /\ common.pc # "store"
    /\ IF common.pc = "idle"
       THEN /\ now > common.last_call
            /\ budget.requests > 0
            /\ budget' = [budget EXCEPT !.requests = @ - 1]
            /\ \E stratum \in {2, 3}, kind \in {"set", "offset"},
                  time \in CommonTimes, offset \in CommonOffsets :
                  /\ kind = "set" => offset = 700
                  /\ kind = "offset" => time.us = 0
                  /\ common' = [ntp_stratum |-> common.ntp_stratum,
                                ntp_ref |-> common.ntp_ref,
                                last_sync |-> common.last_sync,
                                ntp_boot_us |-> common.ntp_boot_us,
                                pc |-> "ntp_boot_us", read |-> now,
                                last_call |-> now,
                                job |-> [kind |-> kind, time |-> time,
                                         offset |-> offset, stratum |-> stratum,
                                         t |-> now,
                                         boot_us |-> common.ntp_boot_us,
                                         before |->
                                             [ntp_stratum |-> common.ntp_stratum,
                                              ntp_ref |-> common.ntp_ref,
                                              last_sync |-> common.last_sync,
                                              ntp_boot_us |-> common.ntp_boot_us]]]
       ELSE /\ UNCHANGED budget
            /\ common' =
                  IF common.pc = "ntp_boot_us"
                  THEN [common EXCEPT
                           !.ntp_boot_us =
                               IF common.job.kind = "set"
                               THEN MicrosAdd(common.job.time, 0 - common.job.t)
                               ELSE MicrosAdd(common.job.boot_us,
                                              common.job.offset),
                           !.pc = "ntp_stratum"]
                  ELSE IF common.pc = "ntp_stratum"
                  THEN [common EXCEPT !.ntp_stratum = common.job.stratum,
                                      !.pc = "ntp_ref"]
                  ELSE IF common.pc = "ntp_ref"
                  THEN [common EXCEPT !.ntp_ref = ServerAddress,
                                      !.pc = "last_sync"]
                  ELSE [common EXCEPT !.last_sync = now, !.pc = "idle"]
    /\ ev' = [op |-> "MainUpdate", done |-> common.pc = "last_sync"]
    /\ UNCHANGED <<gps_vars, ntp_vars, now>>

\* one update of the PPS interrupt while one update of the main context runs
NextRace ==
    \/ \E dt \in ClockSteps : AdvanceClock(dt)
    \/ MainUpdate
    \/ /\ common.pc \notin {"idle", "store"}
       /\ common.last_call = common.job.t
       /\ IsrUpdate

SpecRace == Init /\ [][NextRace]_vars

----------------------------------------------------------------------------
(* gpio_irq_handler is the one callback of both pins: the SDK passes it the *)
(* pin and the mask of the events raised on it.  Here it is called with     *)
(* every pin and every mask of edge events.                                 *)

NextIrq ==
    \/ \E dt \in ClockSteps : AdvanceClock(dt)
    \/ \E i \in SystemBodies : GpsSentence(i)
    \/ MainParseAvailable
    \/ MainCheckRun
    \/ DnsFound
    \/ UdpRecv
    \/ \E gpio \in {GPS_PPS_PIN, BUTTON1_PIN},
          event_mask \in {GPIO_IRQ_EDGE_FALL, GPIO_IRQ_EDGE_RISE,
                          GPIO_IRQ_EDGE_FALL + GPIO_IRQ_EDGE_RISE} :
          GpioIrq(gpio, event_mask)

SpecIrq == Init /\ [][NextIrq]_vars

----------------------------------------------------------------------------
(* parse_sentence on lines that end early and on fractions with more        *)
(* digits than NEGPOW_10 has entries.                                       *)

\* The main loop has read '$', the first n bytes of a line and a CR:
\* gpsutil_feed has put the bytes and a NUL into the buffer and calls
\* parse_sentence.  The line is a sentence of Bodies with its checksum, or
\* the ZDA sentence of Bodies[1] with eight and with nine digits after the
\* decimal point of the seconds.
ParseLine(body, n) ==
    /\ budget.sentences > 0
    /\ budget' = [budget EXCEPT !.sentences = @ - 1]
    /\ \E line \in {body \o <<CH.star, HEX(Checksum(body) \div 16),
                              HEX(Checksum(body) % 16)>>} :
       \E oob \in OobProducts :
       \E r \in {parse_sentence(
                    [gps_status EXCEPT
                        !.buffer = [k \in 0..(BUFSIZE - 1) |->
                                       IF k < n /\ k < Len(line) THEN line[k + 1]
                                       ELSE IF k = n \/ k = Len(line) THEN CH.nul
                                       ELSE gps_status.buffer[k]],
                        !.buffer_pos = IF n < Len(line) THEN n ELSE Len(line),
                        !.in_sentence = FALSE], oob, now)} :
           /\ gps_status' = r.gs
           /\ ev' = [op |-> "parse_sentence", buffer_len |-> r.gs.buffer_pos,
                     whole |-> n >= Len(line), result |-> r.result,
                     cur |-> r.cur, idx |-> r.idx]
    /\ UNCHANGED <<uart, tape, sent, now, ntp_vars, common>>

NextCursor ==
    \E body \in {Bodies[i] : i \in 1..Len(Bodies)}
                \cup {SubSeq(Bodies[1], 1, 16) \o more \o SubSeq(Bodies[1], 17, 33) :
                        more \in {<<52, 53, 54, 55, 56>>,
                                  <<52, 53, 54, 55, 56, 57>>}} :
        \E n \in 1..(Len(body) + 3) : ParseLine(body, n)

SpecCursor == InitGetTime /\ [][NextCursor]_vars

----------------------------------------------------------------------------
(* Properties of the parser                                                 *)

\* the output fields of the status register
Outputs(gs) ==
    <<gs.gps_lat, gs.gps_lon, gs.gps_alt, gs.gps_sat_num, gs.gps_valid,
      gs.utc_hour, gs.utc_min, gs.utc_sec, gs.utc_year, gs.utc_month,
      gs.utc_day, gs.gps_time_valid>>

\* C1: a framed sentence whose declared checksum differs from the XOR of its
\* body, or which holds a malformed field, changes no output field of the
\* status register.
C1_NoCommitOfBadSentence ==
    [][(/\ ev'.op = "gps_parse_available"
        /\ ev'.parsed
        /\ (sent.corrupt \/ sent.id \in MalformedBodies))
       => Outputs(gps_status') = Outputs(gps_status)]_vars

\* C9: in every reachable state of the parser gps_time_valid equals
\* (utc_year > 1000).
C9_TimeValidIffYear ==
    gps_status.gps_time_valid = (gps_status.utc_year > 1000)

\* a ZDA sentence with a date has been committed
C9_Witness ==
    /\ ev.op = "gps_parse_available"
    /\ ev.parsed /\ ev.result
    /\ gps_status.utc_year = 2023
    /\ gps_status.gps_time_valid

----------------------------------------------------------------------------
(* Properties of the discipline state and of the SNTP client                *)

\* UTC offset, stratum, reference id and next-sync deadline
DisciplineState == <<ntp_stratum, ntp_ref, sync_expiry, ntp_us_offset, rtc>>

\* C2: the stratum is 16 if and only if no discipline update has ever taken
\* effect, whatever non-zero stratum the accepted responses carry.
C2_StratumSixteenIffNeverUpdated ==
    (ntp_stratum = 16) <=> ~hist.updated

\* C3: a PPS edge that updates the discipline state finds the parser's time
\* valid and at most 1,000,000 microseconds old; an edge that finds no valid
\* time, or an older one, leaves the discipline state unchanged.
C3_PpsUpdatesOnlyFreshValidTime ==
    [][ev'.op = "gpio_irq_handler"
       => ((ev'.updated \/ DisciplineState' # DisciplineState)
           => (/\ gps_status.gps_time_valid
               /\ now - gps_status.last_time_update <= 1000000))]_vars

\* a PPS edge has updated the discipline state from a time exactly 1 s old
C3_Witness ==
    /\ ev.op = "gpio_irq_handler"
    /\ ev.updated
    /\ ntp_stratum = 1
    /\ ntp_ref = NTP_REF_GPS
    /\ now - gps_status.last_time_update = 1000000

\* C4: a tick starts a transaction only when no request is in flight (none was,
\* or the one that was has just timed out), in_progress is set when the
\* resolver is called, and a tick that finds a request in flight whose deadline
\* has not passed changes nothing in the client and sends nothing.
C4_TickStartsOnlyWhenIdle ==
    [][ev'.op = "ntp_client_check_run"
       => /\ ev'.started
             => /\ ~state.in_progress \/ now > state.deadline
                /\ ev'.in_progress_at_resolver
                /\ state'.deadline = now + NTP_UDP_TIMEOUT_TIME_US
          /\ (state.in_progress /\ now <= state.deadline)
             => /\ state' = state
                /\ udp_pcbs' = udp_pcbs
                /\ dns_requests' = dns_requests
                /\ ~ev'.started
                /\ ~ev'.sent]_vars

\* a tick has found a request in flight at its deadline, and has left it
C4_Witness ==
    /\ ev.op = "ntp_client_check_run"
    /\ ~ev.started
    /\ state.in_progress
    /\ state.pcb # NULL
    /\ now = state.deadline

\* C5: a tick after the deadline of the request in flight closes the endpoint
\* and clears in_progress before it decides on a new request; a tick up to
\* the deadline never abandons the request; so after any tick a request in
\* flight is within its deadline.
C5_TimeoutAbandonsRequest ==
    [][ev'.op = "ntp_client_check_run"
       => /\ (state.in_progress /\ now > state.deadline)
             => /\ ev'.timed_out
                /\ ev'.closed = state.pcb
                /\ state'.in_progress
                   => (ev'.started /\ state'.deadline = now + NTP_UDP_TIMEOUT_TIME_US)
          /\ (state.in_progress /\ now <= state.deadline)
             => /\ ~ev'.timed_out
                /\ state'.in_progress
                /\ state'.pcb = state.pcb
                /\ udp_pcbs' = udp_pcbs
          /\ state'.in_progress => now <= state'.deadline]_vars

\* a tick has abandoned a request whose endpoint was open
C5_Witness ==
    /\ ev.op = "ntp_client_check_run"
    /\ ev.timed_out
    /\ ev.closed # NULL
    /\ ev.closed \notin DOMAIN udp_pcbs

\* C6: after a successful SNTP transaction at time T no tick starts a request
\* before T + 120 s.
C6_NoRequestWithinPollInterval ==
    [][(/\ ev'.op = "ntp_client_check_run"
        /\ ev'.started
        /\ hist.sntp_ok_at >= 0)
       => now >= hist.sntp_ok_at + NTP_INTERVAL_US]_vars

\* a step that is one of the failure paths of the client
FailurePath ==
    \/ /\ ev'.op = "ntp_client_check_run"
       /\ ev'.started
       /\ ev'.err = "ERR_VAL" \/ (ev'.err = "ERR_OK" /\ ~ev'.sent)
    \/ /\ ev'.op = "do_send_ntp_request"
       /\ ev'.failed
    \/ /\ ev'.op = "ntp_recv_cb"
       /\ ev'.kind \in {"address", "port", "length", "stratum", "mode"}

\* C7: every failure path of the client ends with in_progress false and no
\* open endpoint, and leaves the discipline state unchanged.
C7_FailureLeavesClientIdle ==
    [][FailurePath
       => /\ ~state'.in_progress
          /\ state'.pcb = NULL
          /\ DOMAIN udp_pcbs' = {}
          /\ DisciplineState' = DisciplineState]_vars

C10_LastSyncIncreases ==
    [][/\ ntp_get_last_sync(common') >= ntp_get_last_sync(common)
       /\ ev'.op \in {"MainUpdateEnd", "IsrUpdate"}
          => ntp_get_last_sync(common') > ntp_get_last_sync(common)]_vars

----------------------------------------------------------------------------
(* Properties of the timestamp conversions                                  *)

\* C11: for every u in 0..999999, converting u microseconds to an NTP
\* fraction and back yields exactly u.
C11_FractionRoundTrip ==
    ev.op = "fraction" => ev.back = ev.u

----------------------------------------------------------------------------
(* Properties of the handling of responses                                  *)

\* C12: a response that passes the checks of address, port, length, stratum
\* and mode and carries version 3 is accepted and applied like one of
\* version 4.
C12_VersionThreeAccepted ==
    (ev.op = "ntp_recv_cb" /\ ~ev.panicked /\ ev.kind = "version")
        => ev.processed

\* C13: after a response is accepted, in the branch that steps the clock and
\* in the branch that slews it, the stratum of the engine is the stratum field
\* of the response and its reference identifier is the one derived from the
\* address of the server.
C13_AcceptedResponseSetsStratumAndRef ==
    (ev.op = "ntp_recv_cb" /\ ~ev.panicked /\ ev.processed)
        => /\ ntp_stratum = ev.stratum
           /\ ntp_ref = lwip_htonl(ntp_make_ref(ServerAddress))

----------------------------------------------------------------------------
(* Properties of the PPS update                                             *)

\* C14: when a PPS edge is accepted (the parser has a valid time that is not
\* stale), the stratum of the engine becomes 1, its reference identifier
\* 0x47505300, and its UTC the time the parser reports at that edge, with no
\* microseconds beyond the second.
C14_AcceptedPpsSetsEngine ==
    (ev.op = "gpio_irq_handler" /\ ev.passed)
        => /\ ntp_stratum = 1
           /\ ntp_ref = NTP_REF_GPS
           /\ datetime_to_unix(rtc_get_datetime(rtc, now))
                  = gps_get_time(gps_status, now).time
           /\ ntp_get_utc_us(Discipline, now) = W(0)

----------------------------------------------------------------------------
(* Properties of the time the parser hands out                              *)

\* C15: when the time is valid, gpsutil_get_time returns the UNIX timestamp of
\* the committed calendar fields read as UTC with utc_year as the four-digit
\* year: 2023-01-29 00:13:13 gives 1674951193 (day 19386, second 793 of it).
C15_GetTimeIsTimestampOfFields ==
    (ev.op = "gpsutil_get_time" /\ ev.ok)
        => /\ ev.t = [d |-> days_from_civil(gps_status.utc_year,
                                            gps_status.utc_month,
                                            gps_status.utc_day),
                      s |-> (gps_status.utc_hour * 3600)
                            + (gps_status.utc_min * 60) + gps_status.utc_sec.i]
           /\ (/\ gps_status.utc_year = 2023 /\ gps_status.utc_month = 1
               /\ gps_status.utc_day = 29 /\ gps_status.utc_hour = 0
               /\ gps_status.utc_min = 13 /\ gps_status.utc_sec.i = 13)
              => ev.t = [d |-> 19386, s |-> 793]

----------------------------------------------------------------------------
(* Properties of the SNTP server                                            *)

\* the handler went past its check of the copied request
Handled ==
    ev.op = "ntp_server_recv_cb" /\ ~ev.panicked /\ ev.request.len # 0

\* C16: for each request it handles, the server sends exactly one reply, to
\* the address and port of the sender, with LI 0, VN 4, Mode 4, the stratum of
\* the engine, poll 3, precision -6, root delay and dispersion 0, reference
\* timestamp 0, and an originate timestamp equal byte for byte to the transmit
\* timestamp of the request.
C16_OneReplyWithEchoedTimestamp ==
    Handled
        => /\ Len(ev.replies) = 1
           /\ ev.replies[1].addr = ev.request.addr
           /\ ev.replies[1].port = ev.request.port
           /\ ev.replies[1].flags = (0 * 64) + (4 * 8) + 4
           /\ ev.replies[1].stratum = common.ntp_stratum
           /\ ev.replies[1].poll = 3
           /\ ev.replies[1].precision = 256 - 6
           /\ ev.replies[1].root_delay = <<0, 0, 0, 0>>
           /\ ev.replies[1].root_dispersion = <<0, 0, 0, 0>>
           /\ ev.replies[1].ref_ts = <<0, 0, 0, 0, 0, 0, 0, 0>>
           /\ ev.request.len >= 48
           /\ ev.replies[1].orig_ts = SubSeq(ev.request.bytes, 41, 48)

\* C17: the server sends no reply to a datagram whose length is not exactly
\* 48 bytes.
C17_NoReplyUnlessFortyEightBytes ==
    (ev.op = "ntp_server_recv_cb" /\ ev.request.len # 48)
        => ev.replies = <<>>

\* C18: in every reply the ref_id field on the wire is the reference
\* identifier of the engine in big-endian order; 0x47505300 goes out as the
\* bytes 0x47, 0x50, 0x53, 0x00.
C18_RefIdBigEndianOnWire ==
    (ev.op = "ntp_server_recv_cb" /\ ev.replies # <<>>)
        => /\ ev.replies[1].ref_id = BE32(common.ntp_ref)
           /\ common.ntp_ref = NTP_REF_GPS
                 => ev.replies[1].ref_id = <<71, 80, 83, 0>>

----------------------------------------------------------------------------
(* Properties of the framing                                                *)

\* gps_parse_available feeds the one byte that is in the UART
FeedsOne(c) ==
    /\ ev'.op = "gps_parse_available"
    /\ uart = <<c>>

\* C19: the cursor buffer_pos never exceeds 127; a terminator after a body
\* of exactly 127 bytes passes the sentence to parse_sentence; a 128th body
\* byte ends the sentence (in_sentence becomes false, nothing is parsed, the
\* register is otherwise unchanged), and while no sentence is open every byte
\* other than '$' leaves the register as it is.
C19_FramingStaysInBuffer ==
    /\ [](gps_status.buffer_pos <= BUFSIZE - 1)
    /\ [][\A c \in {CH.cr, CH.lf} :
            (FeedsOne(c) /\ gps_status.in_sentence
                        /\ gps_status.buffer_pos = BUFSIZE - 1)
                => ev'.parsed]_vars
    /\ [][\A c \in (0..255) \ {CH.cr, CH.lf, CH.dollar} :
            (FeedsOne(c) /\ gps_status.in_sentence
                        /\ gps_status.buffer_pos = BUFSIZE - 1)
                => /\ ~ev'.parsed
                   /\ gps_status' = [gps_status EXCEPT !.in_sentence = FALSE]]_vars
    /\ [][\A c \in (0..255) \ {CH.dollar} :
            (FeedsOne(c) /\ ~gps_status.in_sentence)
                => /\ ~ev'.parsed
                   /\ gps_status' = gps_status]_vars

\* a sentence with a body of 127 bytes has been parsed and committed
C19_Witness ==
    /\ ev.op = "gps_parse_available"
    /\ ev.parsed
    /\ ev.result
    /\ gps_status.buffer_pos = BUFSIZE - 1
    /\ gps_status.buffer[BUFSIZE - 2] = CH.zero
    /\ gps_status.buffer[BUFSIZE - 1] = CH.nul
    /\ gps_status.utc_year = 2023

\* C20: whether or not a sentence is open, '$' opens one with the cursor at
\* 0 and changes nothing else: what was collected is neither parsed nor
\* committed.  '$' is never stored, and the byte fed right after '$' is the
\* first one stored.
C20_DollarRestartsFraming ==
    /\ [](\A i \in 0..(BUFSIZE - 1) : gps_status.buffer[i] # CH.dollar)
    /\ [][FeedsOne(CH.dollar)
            => /\ ~ev'.parsed
               /\ gps_status' = [gps_status EXCEPT !.in_sentence = TRUE,
                                                   !.buffer_pos = 0]]_vars
    /\ [][\A c \in (0..255) \ {CH.cr, CH.lf, CH.dollar} :
            (ev'.op = "gps_parse_available" /\ uart = <<CH.dollar, c>>)
                => /\ ~ev'.parsed
                   /\ gps_status' = [gps_status EXCEPT !.in_sentence = TRUE,
                                                       !.buffer_pos = 1,
                                                       !.buffer[0] = c]]_vars

\* a '$' has arrived after the first six bytes of a sentence: a sentence is
\* open with the cursor at 0, and nothing was parsed or committed
C20_Witness ==
    /\ ev.op = "gps_parse_available"
    /\ ~ev.parsed
    /\ gps_status.in_sentence
    /\ gps_status.buffer_pos = 0
    /\ gps_status.buffer[5] = CH.comma
    /\ gps_status.buffer[6] = CH.nul
    /\ Outputs(gps_status) = Outputs(GPS_STATUS_INIT)

----------------------------------------------------------------------------
(* Properties of the commits and of the getters                             *)

C22_EmptyGgaKeepsCommittedFields ==
    [][(/\ ev'.op = "gps_parse_available"
        /\ ev'.parsed
        /\ sent.id = 3
        /\ ~sent.corrupt)
       => /\ ev'.result
          /\ gps_status'.gps_lat = gps_status.gps_lat
          /\ gps_status'.gps_lon = gps_status.gps_lon
          /\ gps_status'.gps_alt = gps_status.gps_alt
          /\ gps_status'.utc_hour = gps_status.utc_hour
          /\ gps_status'.utc_min = gps_status.utc_min
          /\ gps_status'.utc_sec = gps_status.utc_sec]_vars

\* C23: a valid GLL sentence whose time field is empty leaves utc_hour,
\* utc_min and utc_sec as they were; a valid GLL sentence with a time commits
\* that time (00:24:34 for line 12).
C23_GllWithoutTimeKeepsTime ==
    [][(/\ ev'.op = "gps_parse_available"
        /\ ev'.parsed
        /\ ~sent.corrupt)
       => /\ sent.id = 13
             => /\ ev'.result
                /\ gps_status'.utc_hour = gps_status.utc_hour
                /\ gps_status'.utc_min = gps_status.utc_min
                /\ gps_status'.utc_sec = gps_status.utc_sec
          /\ sent.id = 12
             => /\ ev'.result
                /\ gps_status'.utc_hour = 0
                /\ gps_status'.utc_min = 24
                /\ gps_status'.utc_sec = [neg |-> FALSE, i |-> 34, f |-> 0]]_vars

\* C24: a committed ZDA sentence leaves latitude, longitude, altitude, the
\* number of satellites and position_valid as they were.
C24_ZdaKeepsPosition ==
    [][(/\ ev'.op = "gps_parse_available"
        /\ ev'.parsed
        /\ ev'.result
        /\ sent.id \in {1, 5, 11})
       => /\ gps_status'.gps_lat = gps_status.gps_lat
          /\ gps_status'.gps_lon = gps_status.gps_lon
          /\ gps_status'.gps_alt = gps_status.gps_alt
          /\ gps_status'.gps_sat_num = gps_status.gps_sat_num
          /\ gps_status'.gps_valid = gps_status.gps_valid]_vars

\* the empty ZDA sentence committed over the position of the RMC sentence
C24_Witness ==
    /\ ev.op = "gps_parse_available"
    /\ ev.parsed
    /\ ev.result
    /\ sent.id = 5
    /\ gps_status.gps_valid
    /\ gps_status.gps_lat = [neg |-> TRUE, i |-> 37, f |-> 8608333]
    /\ gps_status.utc_hour = 0

\* C25: a framed sentence of a type other than GGA, GLL, RMC and ZDA (GSV
\* here) makes the feed return true and changes no output field when its
\* checksum is correct, and makes the feed return false when it is wrong.
C25_OtherTypeOnlyChecksChecksum ==
    [][(/\ ev'.op = "gps_parse_available"
        /\ ev'.parsed
        /\ sent.id = 7)
       => IF sent.corrupt THEN ~ev'.result
          ELSE ev'.result /\ Outputs(gps_status') = Outputs(gps_status)]_vars

\* a GSV sentence accepted while a fix is committed
C25_Witness ==
    /\ ev.op = "gps_parse_available"
    /\ ev.parsed
    /\ ev.result
    /\ sent.id = 7
    /\ ~sent.corrupt
    /\ gps_status.gps_valid

\* C26: when a valid sentence is committed a second time in a row, the
\* position fields, the time fields and both validity flags after the second
\* commit equal those after the first.
C26_SecondCommitChangesNothing ==
    [][(/\ ev'.op = "gps_parse_available"
        /\ ev'.parsed
        /\ ev'.result
        /\ sent.before.id = sent.id
        /\ ~sent.before.corrupt)
       => Outputs(gps_status') = Outputs(gps_status)]_vars

\* the full GGA sentence committed twice
C26_Witness ==
    /\ ev.op = "gps_parse_available"
    /\ ev.parsed
    /\ ev.result
    /\ sent.id = 6
    /\ sent.before.id = 6
    /\ ~sent.before.corrupt
    /\ gps_status.gps_valid
    /\ gps_status.utc_hour = 16

\* C27: gpsutil_get_location returns false and writes nothing to the caller's
\* outputs whenever the position is not valid, gpsutil_get_time returns false
\* and writes nothing whenever the time is not valid; when the flag is true
\* the getter returns true and hands out the committed fields; neither
\* changes the register.
C27_GettersGatedByValidity ==
    [][/\ ev'.op = "gpsutil_get_location"
          => /\ gps_status' = gps_status
             /\ ev'.ok = gps_status.gps_valid
             /\ ev'.written = IF gps_status.gps_valid
                              THEN <<gps_status.gps_lat, gps_status.gps_lon,
                                     gps_status.gps_alt>>
                              ELSE <<>>
       /\ ev'.op = "gpsutil_get_time"
          => /\ gps_status' = gps_status
             /\ ev'.ok = gps_status.gps_time_valid
             /\ ev'.written = IF gps_status.gps_time_valid THEN <<ev'.t>>
                              ELSE <<>>]_vars

\* the location of the RMC sentence handed out while the time is not valid
C27_Witness ==
    /\ ev.op = "gpsutil_get_location"
    /\ ev.ok
    /\ ev.written = <<[neg |-> TRUE, i |-> 37, f |-> 8608333],
                      [neg |-> FALSE, i |-> 145, f |-> 1226666],
                      [neg |-> FALSE, i |-> 0, f |-> 0]>>
    /\ ~gps_status.gps_time_valid

----------------------------------------------------------------------------
(* Properties of the arithmetic of ntp_process_response                     *)

\* C28: the client sets the clock absolutely exactly when the magnitude of
\* soffset2 = (t2_s - t1_s) + (t3_s - t4_s), computed as a signed quantity,
\* exceeds 2; soffset2 = -1 and soffset2 = -2 take the slew branch.
C28_StepIffMagnitudeOverTwo ==
    ev.op = "ntp_process_response"
    => LET S == WAdd(WSub(ev.t2.sec, ev.t1.sec), WSub(ev.t3.sec, ev.t4.sec))
       IN  ev.big <=> ~(\/ S.hi = 0 /\ S.lo <= 2
                        \/ S.hi = 0 - 1 /\ S.lo >= 65534)

\* C29: in the slew branch the correction applied to the clock is
\* ((foffset2 * 15625) >> 27) + soffset2 * 500000 microseconds, foffset2 =
\* (t2_f - t1_f) + (t3_f - t4_f) and soffset2 being signed sums: a server
\* 37 ms behind gives about -37000, soffset2 = 2 contributes 1000000.
C29_SlewIsSignedHalfSum ==
    (ev.op = "ntp_process_response" /\ ~ev.big)
    => LET S == WAdd(WSub(ev.t2.sec, ev.t1.sec), WSub(ev.t3.sec, ev.t4.sec))
           F == WAdd(WSub(ev.t2.frac, ev.t1.frac), WSub(ev.t3.frac, ev.t4.frac))
       IN  ev.foffset_us = MulShift27(F) + (((S.hi * 65536) + S.lo) * 500000)

\* C30: in the branch that sets the clock absolutely, the UTC adopted is
\* (t3_s - NTP_DELTA) seconds plus (t3_f * 15625) >> 26 microseconds,
\* computed without 32-bit overflow, for every 32-bit t3_f.
C30_StepAdoptsTransmitTime ==
    (ev.op = "ntp_process_response" /\ ev.big /\ ev.updated)
    => /\ rtc.set_at = now
       /\ datetime_to_unix(rtc.dt) = TimeOfU32(U32Sub(ev.t3.sec, NTP_DELTA))
       /\ U32Sub(W(1000000), WSub(ntp_us_offset, W(now)))
             = W(((ev.t3.frac.hi * 15625)
                  + ((ev.t3.frac.lo * 15625) \div 65536)) \div 1024)

----------------------------------------------------------------------------
(* Properties of the endpoints, of the interrupts and of the parse cursor   *)

\* C31: after any interleaving of ticks, resolver callbacks and responses
\* the client holds at most one open UDP endpoint, state->pcb # NULL implies
\* in_progress, and every open endpoint is the one state->pcb names (none
\* was overwritten and leaked).
C31_AtMostOneEndpoint ==
    /\ Cardinality(DOMAIN udp_pcbs) <= 1
    /\ state.pcb # NULL => state.in_progress
    /\ DOMAIN udp_pcbs \subseteq {state.pcb}

\* C32: when one update of the PPS interrupt has run while one update of the
\* main context was under way, the stored (UTC offset, stratum, reference
\* id), once both have finished, is what the two updates leave when they run
\* one after the other, in one of the two orders.
C32_RaceEndsAsASequentialOrder ==
    (ev.op = "MainUpdate" /\ ev.done /\ common.last_call # common.job.t)
    => \E time \in CommonTimes :
          LET pps(c) == ntp_update_time(c, time, 1, NTP_REF_GPS,
                                        common.last_call)
              main(c) == IF common.job.kind = "set"
                         THEN ntp_update_time(c, common.job.time,
                                              common.job.stratum, ServerAddress,
                                              common.job.t)
                         ELSE ntp_update_time_by_offset(c, common.job.offset,
                                              common.job.stratum, ServerAddress,
                                              common.job.t)
              triple(c) == <<c.ntp_boot_us, c.ntp_stratum, c.ntp_ref>>
          IN  triple(common) \in {triple(pps(main(common.job.before))),
                                  triple(main(pps(common.job.before)))}

C34_TransmitNotBeforeReceive ==
    (ev.op = "ntp_server_recv_cb" /\ ev.replies # <<>>) =>
        LET rx == ev.replies[1].rx_ts
            tx == ev.replies[1].tx_ts
        IN  \/ rx = tx
            \/ \E i \in 1..8 : /\ rx[i] < tx[i]
                               /\ \A j \in 1..(i - 1) : rx[j] = tx[j]

\* C35: parse_float_decimal reads NEGPOW_10 with an index of 0..7 only,
\* whatever the number of digits after the decimal point.
C35_ScaleIndexInTable ==
    ev.op = "parse_sentence" => ev.idx \in 0..(NEGPOW_10_LEN - 1)

\* C37: while a framed buffer is parsed the cursor never goes past
\* buffer_len, not even where the comma check fails because the buffer ends
\* where a comma is expected.
C37_CursorWithinBuffer ==
    ev.op = "parse_sentence" => ev.cur <= ev.buffer_len

\* C36: a sentence with a '-' that no digit follows is rejected: the float
\* parser reports the error and parse_sentence commits nothing.
C36_LoneMinusIsAnError ==
    (/\ ev.op = "parse_sentence"
     /\ \E k \in 5..(ev.buffer_len - 1) :
           /\ gps_status.buffer[k] = CH.minus
           /\ ~isdigit(gps_status.buffer[k + 1]))
    => ~ev.result

\* C38: gpsutil_feed returns true only for a CR or LF that arrives in a
\* sentence with a non-empty buffer, and false for every other byte; the
\* parse leaves the idle state, in which every byte but '$' is discarded, so
\* that the LF after a CR does not parse the sentence again.  Stated for
\* every byte waiting in the UART, on the register as the bytes before it
\* leave it.
C38_TrueOnlyAtEndOfSentence ==
    \A oob \in OobProducts : \A k \in 1..Len(uart) :
        \E gs \in {feed_available([gs |-> gps_status, parsed |-> FALSE,
                                   result |-> FALSE, n |-> 1],
                                  SubSeq(uart, 1, k - 1), oob, now).gs} :
        \E f \in {gpsutil_feed(gs, uart[k], oob, now)} :
            /\ f.result => f.parsed
            /\ f.parsed => /\ uart[k] \in {CH.cr, CH.lf}
                           /\ gs.in_sentence
                           /\ gs.buffer_pos > 0
                           /\ ~f.gs.in_sentence
            /\ (~gs.in_sentence /\ uart[k] # CH.dollar) =>
                   (~f.parsed /\ f.gs = gs)

\* a sentence has been parsed and taken at its CR, and the LF after it has
\* been read as well
C38_Witness ==
    /\ ev.op = "gps_parse_available"
    /\ ev.parsed
    /\ ev.result
    /\ uart = <<>>
    /\ tape = <<>>
    /\ ~gps_status.in_sentence

C40_MicrosecondsBelowOneSecond ==
    ev.op \in {"ntp_recv_cb", "ntp_set_utc_us"} => ~ev.panicked

====
